---- MODULE Spec2Model ----
(***************************************************************************)
(* A model of the SentinelOne Singularity Terraform provider: the REST     *)
(* client (do / doAndParse), the cursor-draining Find operations, the      *)
(* exactly-one Get operations, the package download and the                *)
(* package-download resource lifecycle.                                    *)
(*                                                                         *)
(* The server and the local filesystem are the environment: every reply    *)
(* and every filesystem fault is an input chosen from a small set.         *)
(***************************************************************************)
EXTENDS Integers, Sequences, FiniteSets, TLC

VARIABLES
    pc,              \* position of the API call in progress
    op,              \* the API operation called: its name, uri and arguments
    getQueryParams,  \* FindX: the query map sent with the next request
    acc,             \* FindX: the items accumulated so far (pkgs / sites / groups)
    requests,        \* every HTTP request handed to the transport, in order
    served,          \* every reply the server gave, in order
    decoded,         \* number of data payloads decoded into an entity list
    ret,             \* what the call returned
    goos,            \* runtime.GOOS of the build
    fs,              \* the local filesystem: the node at each absolute path
    cfg,             \* the configuration of the package-download resource
    tfstate,         \* the tracked state of the resource: None when absent
    rop,             \* the last download or resource operation and its outcome
    planResp,        \* what the last ModifyPlan answered
    steps            \* handler calls and outside events since the resource was configured

\* pc, op, getQueryParams, acc and decoded follow FindPackages, FindSites and
\* FindGroups (src/unnamed/part_002, internal/api/site.go,
\* internal/api/client.go); requests and served are what client.do hands to
\* and gets from the transport; tfstate is the tfPackageDownload record the
\* framework keeps (src/unnamed/part_004).

callVars == <<pc, op, getQueryParams, acc, decoded, ret>>

resVars == <<goos, fs, cfg, tfstate, rop, planResp, steps>>

vars == <<pc, op, getQueryParams, acc, requests, served, decoded, ret,
          goos, fs, cfg, tfstate, rop, planResp, steps>>

-----------------------------------------------------------------------------
(* Bounds of the model *)

\* A drain is followed for at most this many page requests.
MaxPages == 3

\* The handler calls and outside events followed in the life of one resource.
MaxSteps == 4

-----------------------------------------------------------------------------
(* Values on the wire *)

\* An optional value: <<>> is absent (a nil pointer, a missing JSON member),
\* <<v>> is present.
None == <<>>
Some(v) == <<v>>

\* The entities a reply can carry.
Entities == {"e1", "e2"}

\* The contents of one page of results.
Pages == {<<>>, <<"e1">>, <<"e2", "e1">>}

\* The cursors the server hands out.
Cursors == {"c1", "c2"}

\* The structured errors of an error envelope.
ApiErrors ==
    { [Code |-> 4010010, Title |-> "Unauthorized", Detail |-> "token expired"],
      [Code |-> 4000040, Title |-> "Bad Request", Detail |-> "unknown filter"] }

ErrorLists ==
    {<<>>} \cup {<<e>> : e \in ApiErrors} \cup {<<e, f>> : e \in ApiErrors, f \in ApiErrors}

\* HTTP status codes, on both sides of the error threshold.
Statuses == {200, 399, 400, 422}

\* How the "data" member of a body looks.
DataKinds == {"absent", "null", "array", "object", "scalar"}

\* A body as the server sent it.  readOk: io.ReadAll succeeds.  wellFormed:
\* the text is JSON of the envelope's shape.  The members of the envelope are
\* optional on the wire.  For dataKind "array" items are the array's
\* elements, for "object" they are the elements of its "sites" member.
Body(readOk, wellFormed, totalItems, nextCursor, dataKind, items, errorsKind, errors) ==
    [ readOk |-> readOk, wellFormed |-> wellFormed, totalItems |-> totalItems,
      nextCursor |-> nextCursor, dataKind |-> dataKind, items |-> items,
      errorsKind |-> errorsKind, errors |-> errors ]

UnreadableBody == Body(FALSE, FALSE, None, None, "absent", <<>>, "absent", <<>>)
GarbageBody == Body(TRUE, FALSE, None, None, "absent", <<>>, "absent", <<>>)

DataShapes ==
    { <<k, <<>> >> : k \in {"absent", "null", "scalar"} }
        \cup { <<k, p>> : k \in {"array", "object"}, p \in Pages }

\* Bodies of a page: the cursor varies, totalItems is the page's length.
PageBodies ==
    { Body(TRUE, TRUE, Some(Len(d[2])), c, d[1], d[2], "absent", <<>>) :
        d \in DataShapes, c \in {None, Some("")} \cup {Some(x) : x \in Cursors} }

\* Bodies of an id lookup: totalItems varies independently of the data.
LookupBodies ==
    { Body(TRUE, TRUE, t, None, d[1], d[2], "absent", <<>>) :
        d \in DataShapes, t \in {None, Some(0), Some(1), Some(2)} }

\* Bodies of an error reply: the errors member varies.
ErrorBodies ==
    { Body(TRUE, TRUE, None, None, "absent", <<>>, "absent", <<>>),
      Body(TRUE, TRUE, None, None, "null", <<>>, "null", <<>>) }
        \cup { Body(TRUE, TRUE, None, None, "null", <<>>, "list", l) : l \in ErrorLists }

Reply(transportOk, status, body) ==
    [transportOk |-> transportOk, status |-> status, body |-> body]

\* Every reply the server (or the network) can give to one request.
Replies ==
    { Reply(FALSE, 0, UnreadableBody) }
        \cup { Reply(TRUE, s, b) : s \in Statuses, b \in {UnreadableBody, GarbageBody} }
        \cup { Reply(TRUE, 200, b) : b \in PageBodies \cup LookupBodies }
        \cup { Reply(TRUE, 399, b) : b \in LookupBodies }
        \cup { Reply(TRUE, s, b) : s \in {400, 422}, b \in ErrorBodies }
        \cup { Reply(TRUE, 200, b) : b \in ErrorBodies }

-----------------------------------------------------------------------------
(* Diagnostics *)

\* One error diagnostic: its summary, the internal error code of the place
\* that raised it, and what its message is formatted from.
Diag(summary, origin, status, body, code, title, detail) ==
    [ summary |-> summary, origin |-> origin, status |-> status, body |-> body,
      code |-> code, title |-> title, detail |-> detail ]

\* A diagnostic whose message names neither a body nor a structured error.
PlainDiag(summary, origin, status) ==
    Diag(summary, origin, status, UnreadableBody, 0, "", "")

HasError(diags) == Len(diags) > 0

-----------------------------------------------------------------------------
(* The REST client: internal/api/response.go and internal/api/client.go *)

\* json.Unmarshal of a body into an apiResponse.  A member that is absent or
\* null leaves the field at its zero value: TotalItems 0, NextCursor "",
\* Errors nil (an empty list here); Data keeps the raw payload undecoded.
unmarshalEnvelope(body) ==
    [ err |-> ~body.wellFormed,
      Pagination |->
        [ TotalItems |-> IF body.wellFormed /\ body.totalItems # None
                         THEN body.totalItems[1] ELSE 0,
          NextCursor |-> IF body.wellFormed /\ body.nextCursor # None
                         THEN body.nextCursor[1] ELSE "" ],
      Data |-> IF body.wellFormed
               THEN [kind |-> body.dataKind, items |-> body.items]
               ELSE [kind |-> "absent", items |-> <<>>],
      Errors |-> IF body.wellFormed /\ body.errorsKind = "list"
                 THEN body.errors ELSE <<>> ]

\* A faulty variant of errorDiags: only the first structured error is reported.
errorDiagsFirstOnly(reply) ==
    LET result == unmarshalEnvelope(reply.body) IN
    IF result.err \/ Len(result.Errors) = 0
    THEN << Diag("API Response Error", "ERR_API_CLIENT_DO", reply.status, reply.body,
                 0, "", "") >>
    ELSE << Diag("API Response Error", "ERR_API_CLIENT_DO", reply.status, UnreadableBody,
                 result.Errors[1].Code, result.Errors[1].Title, result.Errors[1].Detail) >>

\* The diagnostics of a reply with status >= 400 whose body was read: one per
\* structured error of the envelope, or one generic diagnostic with the body.
errorDiags(reply) ==
    LET result == unmarshalEnvelope(reply.body) IN
    IF result.err \/ Len(result.Errors) = 0
    THEN << Diag("API Response Error", "ERR_API_CLIENT_DO", reply.status, reply.body,
                 0, "", "") >>
    ELSE [ i \in 1..Len(result.Errors) |->
             Diag("API Response Error", "ERR_API_CLIENT_DO", reply.status, UnreadableBody,
                  result.Errors[i].Code, result.Errors[i].Title, result.Errors[i].Detail) ]

\* A faulty variant of isErrorStatus: the threshold itself is let through.
isErrorStatusAbove(status) == status > 400

\* Whether a status code is an error.
isErrorStatus(status) == status >= 400

\* client.do for a request the transport accepted: the reply decides.  resp
\* is None (nil) whenever a diagnostic is returned.
do(reply) ==
    IF ~reply.transportOk
    THEN [ resp |-> None,
           diags |-> << PlainDiag("API Request Error", "ERR_API_CLIENT_DO", 0) >> ]
    ELSE IF isErrorStatus(reply.status)
    THEN IF ~reply.body.readOk
         THEN [ resp |-> None,
                diags |-> << PlainDiag("API Response Error", "ERR_API_CLIENT_DO",
                                       reply.status) >> ]
         ELSE [ resp |-> None, diags |-> errorDiags(reply) ]
    ELSE [ resp |-> Some(reply), diags |-> <<>> ]

\* client.doAndParse: do, then read the body and parse it once.
doAndParse(reply) ==
    LET r == do(reply) IN
    IF HasError(r.diags)
    THEN [ result |-> None, diags |-> r.diags ]
    ELSE IF ~reply.body.readOk
    THEN [ result |-> None,
           diags |-> << PlainDiag("API Response Error", "ERR_API_CLIENT_DO_AND_PARSE",
                                  reply.status) >> ]
    ELSE LET result == unmarshalEnvelope(reply.body) IN
         IF result.err
         THEN [ result |-> None,
                diags |-> << PlainDiag("API Response Error", "ERR_API_CLIENT_DO_AND_PARSE",
                                       reply.status) >> ]
         ELSE [ result |-> Some(result), diags |-> <<>> ]

\* client.Get
Get(reply) == doAndParse(reply)

-----------------------------------------------------------------------------
(* The entity finders *)

\* The three entity kinds with the endpoint each queries.
Kinds == {"Package", "Site", "Group"}

Uri(kind) ==
    CASE kind = "Package" -> "/update/agent/packages"
      [] kind = "Site" -> "/sites"
      [] kind = "Group" -> "/groups"

\* json.Unmarshal of a data payload into a []Package, []Site or []Group:
\* an array gives its elements, null gives a nil list, an empty payload or a
\* value of another type is an error.
unmarshalList(data) ==
    CASE data.kind = "array" -> [err |-> FALSE, items |-> data.items]
      [] data.kind = "null" -> [err |-> FALSE, items |-> <<>>]
      [] OTHER -> [err |-> TRUE, items |-> <<>>]

\* json.Unmarshal of a data payload into a Sites struct, of which FindSites
\* takes the Sites member.
unmarshalSites(data) ==
    CASE data.kind = "object" -> [err |-> FALSE, items |-> data.items]
      [] data.kind = "null" -> [err |-> FALSE, items |-> <<>>]
      [] OTHER -> [err |-> TRUE, items |-> <<>>]

\* The page decoder of each finder.
unmarshalPage(kind, data) ==
    IF kind = "Site" THEN unmarshalSites(data) ELSE unmarshalList(data)

FindOrigin(kind) ==
    CASE kind = "Package" -> "ERR_API_PACKAGE_FIND_PACKAGES"
      [] kind = "Site" -> "ERR_API_SITE_FIND_SITES"
      [] kind = "Group" -> "ERR_API_GROUP_FIND_GROUPS"

\* The keys of a query map.  A map gives every key None or a value.
QueryKeys == {"ids", "siteIds", "cursor"}

EmptyQuery == [k \in QueryKeys |-> None]

\* The serialised query parameters a find is called with.
Queries ==
    { EmptyQuery,
      [EmptyQuery EXCEPT !["ids"] = Some("p1,p2"), !["siteIds"] = Some("s1")] }

\* A faulty variant of appendPage: the page replaces what was accumulated.
appendPageReplacing(items, page) == page

\* pkgs = append(pkgs, page...)
appendPage(items, page) == items \o page

\* A faulty variant of lastPage: the finder stops of its own accord at the
\* first page that holds an item.
lastPageOrFirstItem(result) ==
    result.Pagination.NextCursor = "" \/ Len(result.Data.items) >= 1

\* A faulty variant of lastPage: an empty page ends the drain as well.
lastPageOrEmptyPage(result) ==
    result.Pagination.NextCursor = "" \/ Len(result.Data.items) = 0

\* The drain ends at a page without a next cursor.
lastPage(result) == result.Pagination.NextCursor = ""

\* A faulty variant of withCursor: the next request carries the cursor alone.
withCursorAlone(query, result) ==
    [EmptyQuery EXCEPT !["cursor"] = Some(result.Pagination.NextCursor)]

\* getQueryParams["cursor"] = result.Pagination.NextCursor
withCursor(query, result) ==
    [query EXCEPT !["cursor"] = Some(result.Pagination.NextCursor)]

\* A faulty variant of failFind: the pages accumulated so far are returned.
failFindKeepingPages(items, diags, query, n) ==
    [ next |-> "return", decoded |-> n, items |-> items, isNil |-> Len(items) = 0,
      diags |-> diags, query |-> query ]

\* return nil, diags: a failed page ends the find without any item.
failFind(items, diags, query, n) ==
    [ next |-> "return", decoded |-> n, items |-> <<>>, isNil |-> TRUE,
      diags |-> diags, query |-> query ]

\* One pass of the loop of FindPackages / FindSites / FindGroups, for the
\* reply the request got.  next is "return" or "loop"; decoded counts the
\* data payloads handed to json.Unmarshal.  A list nothing was appended to is
\* still nil.
findPage(kind, query, items, reply) ==
    LET r == Get(reply) IN
    IF HasError(r.diags)
    THEN failFind(items, r.diags, query, 0)
    ELSE LET result == r.result[1]
             page == unmarshalPage(kind, result.Data)
             all == appendPage(items, page.items) IN
         IF page.err
         THEN failFind(items, << PlainDiag("API Response Error", FindOrigin(kind), 0) >>,
                       query, 1)
         ELSE IF lastPage(result)
         THEN [ next |-> "return", decoded |-> 1, items |-> all, isNil |-> Len(all) = 0,
                diags |-> <<>>, query |-> query ]
         ELSE [ next |-> "loop", decoded |-> 1, items |-> all, isNil |-> Len(all) = 0,
                diags |-> <<>>, query |-> withCursor(query, result) ]

GetOrigin(kind) ==
    CASE kind = "Package" -> "ERR_API_PACKAGE_GET_PACKAGE"
      [] kind = "Site" -> "ERR_API_SITE_FIND_SITES"
      [] kind = "Group" -> "ERR_API_GROUP_GET_GROUP"

\* What an API call hands back.  items / isNil: the list of a find (nil on
\* failure).  entity: the pointer of a get (None is nil).  result: the
\* envelope of a plain Get.  panic: the call did not return, the goroutine
\* panicked.
Ret(items, isNil, entity, result, diags, panic) ==
    [ items |-> items, isNil |-> isNil, entity |-> entity, result |-> result,
      diags |-> diags, panic |-> panic ]

NoRet == Ret(<<>>, TRUE, None, None, <<>>, FALSE)

\* &pkgs[0]: indexing an empty list is a run-time panic.
firstOf(list) ==
    IF Len(list) = 0
    THEN Ret(<<>>, TRUE, None, None, <<>>, TRUE)
    ELSE Ret(<<>>, TRUE, Some(list[1]), None, <<>>, FALSE)

\* GetPackage / GetSite / GetGroup for the reply the request got.  All three
\* decode the data payload into a list of the entity ([]Package, []Site,
\* []Group).
getById(kind, reply) ==
    LET r == Get(reply) IN
    IF HasError(r.diags)
    THEN Ret(<<>>, TRUE, None, None, r.diags, FALSE)
    ELSE LET result == r.result[1]
             totalItems == result.Pagination.TotalItems IN
         IF totalItems = 0
         THEN Ret(<<>>, TRUE, None, None,
                  << PlainDiag(kind \o " Not Found", GetOrigin(kind), 0) >>, FALSE)
         ELSE IF totalItems > 1
         THEN Ret(<<>>, TRUE, None, None,
                  << PlainDiag("Multiple " \o kind \o "s Found", GetOrigin(kind), 0) >>, FALSE)
         ELSE LET list == unmarshalList(result.Data) IN
              IF list.err
              THEN Ret(<<>>, TRUE, None, None,
                       << PlainDiag("API Response Error", GetOrigin(kind), 0) >>, FALSE)
              ELSE firstOf(list.items)

-----------------------------------------------------------------------------
(* The local filesystem and internal/plugin/util.go *)

\* A path: absolute or relative to the working directory, and its components.
Path(abs, comps) == [abs |-> abs, comps |-> comps]

\* The working directory of the provider process.
Cwd == <<"w">>

\* path.Join(folder, filename)
Join(folder, filename) == Path(folder.abs, folder.comps \o <<filename>>)

\* filepath.Split: the folder part of an absolute path.
Split(path) == Path(path.abs, SubSeq(path.comps, 1, Len(path.comps) - 1))

\* A node of the filesystem: nothing, a directory, or a regular file with its
\* content and permission bits.
Node(kind, content, mode) == [kind |-> kind, content |-> content, mode |-> mode]

NoNode == Node("none", "", 0)

\* A mode string is a sequence of digits, "0644" is <<0, 6, 4, 4>>.
RECURSIVE octalValue(_)
octalValue(digits) ==
    IF digits = <<>> THEN 0
    ELSE 8 * octalValue(SubSeq(digits, 1, Len(digits) - 1)) + digits[Len(digits)]

\* strconv.ParseUint(mode, 8, 32): the empty string and a digit above 7 are
\* errors.
ParseFilesystemMode(mode) ==
    IF mode = <<>> \/ \E i \in 1..Len(mode) : mode[i] > 7
    THEN [ mode |-> 0,
           diags |-> << PlainDiag("Unexpected Internal Error",
                                  "ERR_UTIL_PARSE_FILESYSTEM_MODE", 0) >> ]
    ELSE [ mode |-> octalValue(mode), diags |-> <<>> ]

RECURSIVE octalDigits(_)
octalDigits(n) ==
    IF n < 8 THEN <<n>> ELSE Append(octalDigits(n \div 8), n % 8)

RECURSIVE padZeros(_, _)
padZeros(digits, width) ==
    IF Len(digits) >= width THEN digits ELSE padZeros(<<0>> \o digits, width)

\* fmt.Sprintf("%04o", mode)
format04o(n) == padZeros(octalDigits(n), 4)

\* A directory that is already there (mode 0755), and the file os.Create
\* makes anew (0666 under the usual umask of 022).
DirNode == Node("dir", "", octalValue(<<7, 5, 5>>))
NewFile == Node("file", "", octalValue(<<6, 4, 4>>))

\* What a file can hold: nothing, one of three packages (two of the same
\* size), or the beginning of an interrupted transfer.
Contents == {"", "x", "y", "z", "cut"}

\* The size in bytes of a content (fileInfo.Size()).
sizeOf(content) ==
    CASE content = "" -> 0
      [] content = "x" -> 100
      [] content = "y" -> 100
      [] content = "z" -> 200
      [] content = "cut" -> 40

\* The SHA1 of a content in hexadecimal: different contents, different sums.
sha1Of(content) ==
    CASE content = "" -> "da39a3ee"
      [] content = "x" -> "aaa"
      [] content = "y" -> "bbb"
      [] content = "z" -> "ccc"
      [] content = "cut" -> "ddd"

\* The system calls that can fail for reasons outside the model: each
\* operation takes the one that fails ("none": none fails).
Faults ==
    { "none", "abs", "statFolder", "mkdir", "statFile", "create", "chmod", "copy",
      "statDownload", "hash" }

FsDiag(origin) == PlainDiag("Unexpected Internal Error", origin, 0)

\* The node at an absolute path.
nodeAt(fsys, comps) == IF comps \in DOMAIN fsys THEN fsys[comps] ELSE DirNode

\* ToAbsolutePath: an absolute path is returned as it is, a relative one is
\* joined to the working directory, which fails when that cannot be told.
ToAbsolutePath(path, fault) ==
    IF path.abs THEN [path |-> path, diags |-> <<>>]
    ELSE IF fault = "abs"
    THEN [path |-> path, diags |-> << FsDiag("ERR_UTIL_TO_ABSOLUTE_PATH") >>]
    ELSE [path |-> Path(TRUE, Cwd \o path.comps), diags |-> <<>>]

\* PathExists: false only for a path that is not there; a failing stat says
\* true with an error.  The fault "stat" is the failure of this stat.
PathExists(fsys, path, fault) ==
    LET a == ToAbsolutePath(path, fault) IN
    IF HasError(a.diags) THEN [exists |-> FALSE, diags |-> a.diags]
    ELSE IF nodeAt(fsys, a.path.comps).kind = "none"
    THEN [exists |-> FALSE, diags |-> <<>>]
    ELSE IF fault = "stat"
    THEN [exists |-> TRUE, diags |-> << FsDiag("ERR_UTIL_PATH_EXISTS") >>]
    ELSE [exists |-> TRUE, diags |-> <<>>]

\* os.MkdirAll: the folder and every missing parent of it become directories.
MkdirAll(fsys, comps, mode) ==
    [ p \in DOMAIN fsys |->
        IF /\ Len(p) <= Len(comps)
           /\ p = SubSeq(comps, 1, Len(p))
           /\ fsys[p].kind = "none"
        THEN Node("dir", "", mode) ELSE fsys[p] ]

\* CreateDirectory: nothing is done to a folder that exists.
CreateDirectory(fsys, folder, mode, fault) ==
    LET e == PathExists(fsys, folder, IF fault = "statFolder" THEN "stat" ELSE fault) IN
    IF HasError(e.diags) THEN [fs |-> fsys, diags |-> e.diags]
    ELSE IF e.exists THEN [fs |-> fsys, diags |-> <<>>]
    ELSE LET m == ParseFilesystemMode(mode) IN
         IF HasError(m.diags) THEN [fs |-> fsys, diags |-> m.diags]
         ELSE IF fault = "mkdir"
         THEN [fs |-> fsys, diags |-> << FsDiag("ERR_UTIL_CREATE_DIRECTORY") >>]
         ELSE [fs |-> MkdirAll(fsys, ToAbsolutePath(folder, fault).path.comps, m.mode),
               diags |-> <<>>]

\* os.Create fails on a directory and under a parent that is no directory.
canCreate(fsys, comps) ==
    /\ nodeAt(fsys, comps).kind # "dir"
    /\ nodeAt(fsys, SubSeq(comps, 1, Len(comps) - 1)).kind = "dir"

\* os.Create: a new empty file, or the existing file truncated.
osCreate(fsys, comps) ==
    [ fsys EXCEPT ![comps] =
        IF @.kind = "file" THEN Node("file", "", @.mode) ELSE NewFile ]

\* os.Chmod: the node records the mode the call was given (Windows keeps
\* of it the owner's write bit, as the read-only attribute).
osChmod(fsys, comps, mode) == [fsys EXCEPT ![comps] = Node(@.kind, @.content, mode)]

\* os.Remove of a file.
osRemove(fsys, comps) == [fsys EXCEPT ![comps] = NoNode]

\* The target operating systems (runtime.GOOS).
Systems == {"linux", "windows"}

\* The chmod step after os.Create is left out on Windows.
setsFileMode(os) == os # "windows"

\* A faulty variant of checksExisting: an existing file is never looked for.
checksExistingNever(overwrite) == FALSE

\* The file-exists check of CreateFile, made unless the file may be
\* overwritten.
checksExisting(overwrite) == ~overwrite

\* The only element of a one-element set.  Only({ e : x \in {v} }) is e with
\* x standing for the value of v.
Only(S) == CHOOSE x \in S : TRUE

\* CreateFile.  opened: the file was created and is open for writing.
\* created: os.Create was done, whatever came after.  The steps are, from
\* the last binding upwards: a the absolute path, d the folder, e the check
\* for an existing file, made the filesystem after os.Create, m the mode.
CreateFile(fsys, os, path, folderMode, fileMode, overwrite, fault) ==
    LET none == [fs |-> fsys, opened |-> FALSE, created |-> FALSE, diags |-> <<>>] IN
    Only({
    IF HasError(a.diags) THEN [none EXCEPT !.diags = a.diags]
    ELSE Only({
    IF HasError(d.diags) THEN [none EXCEPT !.diags = d.diags]
    ELSE Only({
    IF HasError(e.diags) THEN [none EXCEPT !.fs = d.fs, !.diags = e.diags]
    ELSE IF e.exists
    THEN [none EXCEPT !.fs = d.fs,
                      !.diags = << PlainDiag("File Exists", "ERR_UTIL_CREATE_FILE", 0) >>]
    ELSE IF fault = "create" \/ ~canCreate(d.fs, a.path.comps)
    THEN [none EXCEPT !.fs = d.fs, !.diags = << FsDiag("ERR_UTIL_CREATE_FILE") >>]
    ELSE Only({
    IF ~setsFileMode(os)
    THEN [fs |-> made, opened |-> TRUE, created |-> TRUE, diags |-> <<>>]
    ELSE Only({
    IF HasError(m.diags)
    THEN [fs |-> made, opened |-> FALSE, created |-> TRUE, diags |-> m.diags]
    ELSE IF fault = "chmod"
    THEN [fs |-> made, opened |-> FALSE, created |-> TRUE,
          diags |-> << FsDiag("ERR_UTIL_CREATE_FILE") >>]
    ELSE [fs |-> osChmod(made, a.path.comps, m.mode), opened |-> TRUE, created |-> TRUE,
          diags |-> <<>>]
    : m \in { ParseFilesystemMode(fileMode) } })
    : made \in { osCreate(d.fs, a.path.comps) } })
    : e \in { IF checksExisting(overwrite)
              THEN PathExists(d.fs, a.path, IF fault = "statFile" THEN "stat" ELSE fault)
              ELSE [exists |-> FALSE, diags |-> <<>>] } })
    : d \in { CreateDirectory(fsys, Split(a.path), folderMode, fault) } })
    : a \in { ToAbsolutePath(path, fault) } })

\* GetFileSHA1: opening fails on a missing file, reading fails on a directory.
GetFileSHA1(fsys, path, fault) ==
    LET a == ToAbsolutePath(path, fault) IN
    IF HasError(a.diags) THEN [sha1 |-> "", diags |-> a.diags]
    ELSE IF fault = "hash" \/ nodeAt(fsys, a.path.comps).kind # "file"
    THEN [sha1 |-> "", diags |-> << FsDiag("ERR_UTIL_GET_FILE_SHA1") >>]
    ELSE [sha1 |-> sha1Of(nodeAt(fsys, a.path.comps).content), diags |-> <<>>]


-----------------------------------------------------------------------------
(* client.DownloadPackage *)

\* A request as the transport sees it.
Request(uri, query) == [uri |-> uri, query |-> query]

\* The package metadata the server can report: for each of the three package
\* contents its size and SHA1, and a version.
PackageOf(content, version) ==
    [ Id |-> "p1", FileSize |-> sizeOf(content), SHA1 |-> sha1Of(content),
      Version |-> version ]

Packages ==
    { PackageOf("x", "1.0"), PackageOf("y", "1.0"), PackageOf("z", "2.0") }

\* The replies to a lookup of the package: the package as the server has it,
\* no such package, a list that is empty against its own total, an error
\* envelope, no connection.
LookupReplies ==
    { Reply(TRUE, 200, Body(TRUE, TRUE, Some(1), None, "array", <<p>>, "absent", <<>>)) :
        p \in Packages }
        \cup { Reply(TRUE, 200, Body(TRUE, TRUE, Some(0), None, "array", <<>>, "absent", <<>>)),
               Reply(TRUE, 200, Body(TRUE, TRUE, Some(1), None, "array", <<>>, "absent", <<>>)),
               Reply(TRUE, 422, Body(TRUE, TRUE, None, None, "null", <<>>, "list",
                                     << [ Code |-> 4000040, Title |-> "Bad Request",
                                          Detail |-> "unknown filter" ] >>)),
               Reply(FALSE, 0, UnreadableBody) }

\* The replies to the download request; a successful one streams a payload.
StreamReplies ==
    { Reply(TRUE, 200, GarbageBody), Reply(TRUE, 404, GarbageBody),
      Reply(FALSE, 0, UnreadableBody) }

Payloads == {"x", "y", "z"}

\* What the environment does to one operation: the system call that fails,
\* the reply to the download request and the payload it streams, the reply to
\* the package lookup.
Env(fault, stream, payload, lookup) ==
    [fault |-> fault, stream |-> stream, payload |-> payload, lookup |-> lookup]

\* client.doAndStream into an open file: an interrupted copy leaves what was
\* written so far.
doAndStream(fsys, comps, reply, payload, fault) ==
    LET r == do(reply) IN
    IF HasError(r.diags) THEN [fs |-> fsys, diags |-> r.diags]
    ELSE IF fault = "copy"
    THEN [ fs |-> [fsys EXCEPT ![comps] = Node(@.kind, "cut", @.mode)],
           diags |-> << PlainDiag("API Response Error", "ERR_API_CLIENT_DO_AND_STREAM",
                                  reply.status) >> ]
    ELSE [ fs |-> [fsys EXCEPT ![comps] = Node(@.kind, payload, @.mode)], diags |-> <<>> ]

\* client.GetStream
GetStream(fsys, comps, reply, payload, fault) ==
    doAndStream(fsys, comps, reply, payload, fault)

DownloadUri(siteId, id) == "/update/agent/download/" \o siteId \o "/" \o id

IdQuery(id) == [EmptyQuery EXCEPT !["ids"] = Some(id)]

\* What DownloadPackage hands back, and what it did: the filesystem it
\* leaves, the requests it issued, whether it created the file.
Download(fsys, path, size, sha1, version, diags, reqs, created, panic) ==
    [ fs |-> fsys, path |-> path, size |-> size, sha1 |-> sha1, version |-> version,
      diags |-> diags, requests |-> reqs, created |-> created, panic |-> panic ]

\* return "", 0, "", "", diags
failDownload(fsys, diags, reqs, created) ==
    Download(fsys, None, 0, "", "", diags, reqs, created, FALSE)

\* os.Remove(absPath) before the error of a late step is returned.
removeDownloaded(fsys, comps) == osRemove(fsys, comps)

\* DownloadPackage.  The steps are, from the last binding upwards: a the
\* absolute path, f the created file, w the streamed download, h the SHA1 of
\* the file, g the package looked up for its version.
DownloadPackage(fsys, os, id, siteId, path, folderMode, fileMode, overwrite, env) ==
    LET streamReq == Request(DownloadUri(siteId, id), EmptyQuery)
        lookupReq == Request(Uri("Package"), IdQuery(id)) IN
    Only({
    IF HasError(a.diags) THEN failDownload(fsys, a.diags, <<>>, FALSE)
    ELSE Only({
    IF HasError(f.diags) THEN failDownload(f.fs, f.diags, <<>>, f.created)
    ELSE Only({
    IF HasError(w.diags) THEN failDownload(w.fs, w.diags, <<streamReq>>, TRUE)
    ELSE IF env.fault = "statDownload"
    THEN failDownload(removeDownloaded(w.fs, a.path.comps),
                      << FsDiag("ERR_API_PACKAGE_DOWNLOAD_PACKAGE") >>, <<streamReq>>, TRUE)
    ELSE Only({
    IF HasError(h.diags)
    THEN failDownload(removeDownloaded(w.fs, a.path.comps), h.diags, <<streamReq>>, TRUE)
    ELSE Only({
    IF g.panic
    THEN Download(w.fs, None, 0, "", "", <<>>, <<streamReq, lookupReq>>, TRUE, TRUE)
    ELSE IF HasError(g.diags)
    THEN failDownload(removeDownloaded(w.fs, a.path.comps), g.diags,
                      <<streamReq, lookupReq>>, TRUE)
    ELSE Download(w.fs, Some(a.path), sizeOf(nodeAt(w.fs, a.path.comps).content), h.sha1,
                  g.entity[1].Version, <<>>, <<streamReq, lookupReq>>, TRUE, FALSE)
    : g \in { getById("Package", env.lookup) } })
    : h \in { GetFileSHA1(w.fs, a.path, env.fault) } })
    : w \in { GetStream(f.fs, a.path.comps, env.stream, env.payload, env.fault) } })
    : f \in { CreateFile(fsys, os, a.path, folderMode, fileMode, overwrite, env.fault) } })
    : a \in { ToAbsolutePath(path, env.fault) } })

-----------------------------------------------------------------------------
(* The package-download resource: its configuration and the filesystems it *)
(* meets.                                                                  *)

\* local_folder is given absolute or relative to the working directory.
AbsFolder == Path(TRUE, <<"d">>)
RelFolder == Path(FALSE, <<"r">>)

\* The attributes of tfPackageDownload.  An attribute is None while null or
\* unknown.  The computed attributes are unknown in a plan.
Plan(folder, filename, fileMode, overwrite) ==
    [ DirectoryMode |-> Some(<<0, 7, 5, 5>>),
      FileMode |-> Some(fileMode),
      FileSize |-> None,
      LocalFilename |-> Some(filename),
      LocalFolder |-> Some(folder),
      OutputFile |-> None,
      OverwriteExistingFile |-> Some(overwrite),
      PackageId |-> Some("p1"),
      SHA1 |-> None,
      SiteId |-> Some("s1"),
      Version |-> None ]

\* The configurations: the schema's defaults, and departures from them in
\* the place of the file, its mode, the overwrite flag and the folder mode.
Plans ==
    { Plan(AbsFolder, "f", <<0, 6, 4, 4>>, TRUE),
      Plan(RelFolder, "f", <<6, 0, 0>>, FALSE),
      Plan(AbsFolder, "f", <<0, 6, 4, 4>>, FALSE),
      [Plan(AbsFolder, "f", <<0, 6, 4, 4>>, TRUE) EXCEPT !.DirectoryMode = Some(<<0, 7, 0, 0>>)] }

\* The absolute paths of the model.
FsPaths ==
    { <<"w">>, <<"d">>, <<"w", "r">>, <<"d", "f">>, <<"d", "g">>,
      <<"w", "r", "f">>, <<"w", "r", "g">> }

\* Only the working directory exists.
EmptyFs == [p \in FsPaths |-> IF p = Cwd THEN DirNode ELSE NoNode]

\* The filesystems an operation can start from: nothing there, a file
\* already at the destination, a directory at the destination, a file where
\* the folder should be.
InitialFilesystems ==
    { EmptyFs,
      [EmptyFs EXCEPT ![<<"d">>] = DirNode,
                      ![<<"d", "f">>] = Node("file", "y", octalValue(<<6, 0, 0>>))],
      [EmptyFs EXCEPT ![<<"w", "r">>] = DirNode,
                      ![<<"w", "r", "f">>] = Node("file", "x", octalValue(<<6, 4, 4>>))],
      [EmptyFs EXCEPT ![<<"d">>] = DirNode, ![<<"d", "f">>] = DirNode],
      [EmptyFs EXCEPT ![<<"d">>] = Node("file", "z", octalValue(<<6, 4, 4>>))] }

-----------------------------------------------------------------------------
(* The package-download resource: Create and Read *)

\* What a handler leaves: the tracked state (None: no resource), the
\* filesystem, the diagnostics of the response, the requests it issued and
\* the replies they got, whether DownloadPackage returned without error, and
\* whether the handler ended in a panic.
Outcome(state, fsys, diags, reqs, replies, downloaded, panic) ==
    [ state |-> state, fs |-> fsys, diags |-> diags, requests |-> reqs,
      served |-> replies, downloaded |-> downloaded, panic |-> panic ]

\* The replies consumed by the requests DownloadPackage issued.
repliesTo(reqs, env) == SubSeq(<<env.stream, env.lookup>>, 1, Len(reqs))

\* A faulty variant of sha1Matches: the checksum is not compared.
sha1MatchesUnchecked(sha1, pkg) == TRUE

\* fileSize != pkg.FileSize and sha1 != pkg.SHA1, negated.
sizeMatches(fileSize, pkg) == fileSize = pkg.FileSize
sha1Matches(sha1, pkg) == sha1 = pkg.SHA1

CreateErrorDiag ==
    PlainDiag("Download Package Creation Error", "ERR_RESOURCE_PACKAGE_DOWNLOAD_CREATE", 0)

\* PackageDownload.Create: the state before it is none, which stays on every
\* early return.  g is the package looked up first, d the download.
create(fsys, os, plan, lookup, env) ==
    LET lookupReq == Request(Uri("Package"), IdQuery(plan.PackageId[1])) IN
    Only({
    IF g.panic
    THEN Outcome(None, fsys, <<>>, <<lookupReq>>, <<lookup>>, FALSE, TRUE)
    ELSE IF HasError(g.diags)
    THEN Outcome(None, fsys, g.diags, <<lookupReq>>, <<lookup>>, FALSE, FALSE)
    ELSE Only({
    LET pkg == g.entity[1]
        reqs == <<lookupReq>> \o d.requests
        replies == <<lookup>> \o repliesTo(d.requests, env) IN
    IF d.panic THEN Outcome(None, d.fs, <<>>, reqs, replies, FALSE, TRUE)
    ELSE IF HasError(d.diags) THEN Outcome(None, d.fs, d.diags, reqs, replies, FALSE, FALSE)
    ELSE IF ~sizeMatches(d.size, pkg)
    THEN Outcome(None, d.fs, <<CreateErrorDiag>>, reqs, replies, TRUE, FALSE)
    ELSE IF ~sha1Matches(d.sha1, pkg)
    THEN Outcome(None, d.fs, <<CreateErrorDiag>>, reqs, replies, TRUE, FALSE)
    ELSE Outcome(Some([plan EXCEPT !.FileSize = Some(pkg.FileSize),
                                   !.SHA1 = Some(pkg.SHA1),
                                   !.OutputFile = d.path,
                                   !.Version = Some(d.version)]),
                 d.fs, <<>>, reqs, replies, TRUE, FALSE)
    : d \in { DownloadPackage(fsys, os, plan.PackageId[1], plan.SiteId[1],
                              Join(plan.LocalFolder[1], plan.LocalFilename[1]),
                              plan.DirectoryMode[1], plan.FileMode[1],
                              plan.OverwriteExistingFile[1], env) } })
    : g \in { getById("Package", lookup) } })

ReadErrorDiag ==
    PlainDiag("Download Package Refresh Error", "ERR_RESOURCE_PACKAGE_DOWNLOAD_READ", 0)

\* A faulty variant of readMissing: a file that is gone is reported as an
\* error and the resource stays tracked.
readMissingAsError(state) == [state |-> Some(state), diags |-> <<ReadErrorDiag>>]

\* os.IsNotExist(err): resp.State.RemoveResource(ctx) and return.
readMissing(state) == [state |-> None, diags |-> <<>>]

\* A faulty variant of refreshSize: the size tracked since Create is kept.
refreshSizeKept(state, fileInfo) == state

\* state.FileSize = types.Int64Value(fileInfo.Size())
refreshSize(state, fileInfo) ==
    [state EXCEPT !.FileSize = Some(sizeOf(fileInfo.content))]

\* A faulty variant of returnsBeforeSave: the refreshed state is saved
\* whatever was reported.
returnsBeforeSaveNever(diags) == FALSE

\* Read, after GetFileSHA1: if resp.Diagnostics.HasError() { return }, with
\* the diagnostics of the whole Read.
returnsBeforeSave(diags) == HasError(diags)

\* PackageDownload.Read: an error leaves the prior state in place.  g is the
\* package looked up first, h the SHA1 of the file.
read(fsys, os, state, lookup, fault) ==
    LET lookupReq == Request(Uri("Package"), IdQuery(state.PackageId[1]))
        absPath == state.OutputFile[1]
        fileInfo == nodeAt(fsys, absPath.comps)
        out(st, diags, panic) ==
            Outcome(st, fsys, diags, <<lookupReq>>, <<lookup>>, FALSE, panic) IN
    Only({
    IF g.panic THEN out(Some(state), <<>>, TRUE)
    ELSE IF HasError(g.diags) THEN out(Some(state), g.diags, FALSE)
    ELSE LET versioned == [state EXCEPT !.Version = Some(g.entity[1].Version)] IN
    IF fileInfo.kind = "none"
    THEN out(readMissing(versioned).state, readMissing(versioned).diags, FALSE)
    ELSE IF fault = "statFile" THEN out(Some(state), <<ReadErrorDiag>>, FALSE)
    ELSE Only({
    LET dirDiags == IF fileInfo.kind = "dir" THEN <<ReadErrorDiag>> ELSE <<>>
        moded == IF os # "windows"
                 THEN [versioned EXCEPT !.FileMode = Some(format04o(fileInfo.mode))]
                 ELSE versioned
        sized == refreshSize(moded, fileInfo)
        diags == dirDiags \o h.diags IN
    IF returnsBeforeSave(diags) THEN out(Some(state), diags, FALSE)
    ELSE out(Some([sized EXCEPT !.SHA1 = Some(h.sha1)]), diags, FALSE)
    : h \in { GetFileSHA1(fsys, absPath, fault) } })
    : g \in { getById("Package", lookup) } })

-----------------------------------------------------------------------------
(* The package-download resource: ModifyPlan *)

\* The ModifyPlanResponse: the attributes appended to RequiresReplace, and
\* the values set in the plan for file_size and sha1 (None: left alone).
PlanResponse(requiresReplace, fileSize, sha1) ==
    [RequiresReplace |-> requiresReplace, FileSize |-> fileSize, SHA1 |-> sha1]

NoPlanResponse == PlanResponse({}, None, None)

\* A faulty variant of sizeDiffers: only the SHA1 decides.
sizeDiffersIgnored(pkg, fileSize) == FALSE

\* A faulty variant of sha1Differs: only the size decides.
sha1DiffersIgnored(pkg, sha1) == FALSE

\* pkg.FileSize != fileSize.ValueInt64() and pkg.SHA1 != sha1.ValueString()
sizeDiffers(pkg, fileSize) == pkg.FileSize # fileSize
sha1Differs(pkg, sha1) == pkg.SHA1 # sha1

\* PackageDownload.ModifyPlan for the prior state (None: no resource yet).
\* Nothing is looked up unless package_id, file_size and sha1 are tracked.
modifyPlan(state, lookup) ==
    LET none == [ resp |-> NoPlanResponse, diags |-> <<>>, requests |-> <<>>,
                  served |-> <<>>, panic |-> FALSE ] IN
    IF state = None THEN none
    ELSE IF state[1].PackageId = None \/ state[1].FileSize = None \/ state[1].SHA1 = None
    THEN none
    ELSE LET asked == [none EXCEPT
                          !.requests = << Request(Uri("Package"),
                                                  IdQuery(state[1].PackageId[1])) >>,
                          !.served = <<lookup>>] IN
    Only({
    IF g.panic THEN [asked EXCEPT !.panic = TRUE]
    ELSE IF HasError(g.diags) THEN [asked EXCEPT !.diags = g.diags]
    ELSE LET pkg == g.entity[1]
             size == sizeDiffers(pkg, state[1].FileSize[1])
             sha1 == sha1Differs(pkg, state[1].SHA1[1]) IN
         [asked EXCEPT !.resp =
             PlanResponse((IF size THEN {"file_size"} ELSE {})
                              \cup (IF sha1 THEN {"sha1"} ELSE {}),
                          IF size THEN Some(pkg.FileSize) ELSE None,
                          IF sha1 THEN Some(pkg.SHA1) ELSE None)]
    : g \in { getById("Package", lookup) } })

-----------------------------------------------------------------------------
(* The package-download resource: Update and Delete *)

\* os.Rename fails when the source is not there, when the folder of the
\* destination is no directory, and when a file would take the place of a
\* directory or a directory that of a file.
canRename(fsys, src, dest) ==
    /\ nodeAt(fsys, src).kind # "none"
    /\ nodeAt(fsys, SubSeq(dest, 1, Len(dest) - 1)).kind = "dir"
    /\ nodeAt(fsys, dest).kind \in {"none", nodeAt(fsys, src).kind}

\* A faulty variant of osRename: the file is copied and the source stays.
osRenameCopies(fsys, src, dest) == [fsys EXCEPT ![dest] = fsys[src]]

\* os.Rename: the source takes the place of whatever was at the destination.
osRename(fsys, src, dest) == [fsys EXCEPT ![dest] = fsys[src], ![src] = NoNode]

UpdateErrorDiag ==
    PlainDiag("Download Package Update Error", "ERR_RESOURCE_PACKAGE_DOWNLOAD_UPDATE", 0)

\* if !plan.X.IsNull() && !plan.X.IsUnknown(): the planned value, else the
\* tracked one.
known(planned, tracked) == IF planned # None THEN planned ELSE tracked

\* Update, "if filename or folder has changed, move the file": the folder of
\* the destination is made if it is missing, then the file is renamed.
moveFile(fsys, srcPath, destPath, directoryMode, fault) ==
    Only({
    IF HasError(d.diags) THEN [fs |-> d.fs, diags |-> d.diags]
    ELSE IF fault = "rename" \/ ~canRename(d.fs, srcPath.comps, destPath.comps)
    THEN [fs |-> d.fs, diags |-> <<UpdateErrorDiag>>]
    ELSE [fs |-> osRename(d.fs, srcPath.comps, destPath.comps), diags |-> <<>>]
    : d \in { CreateDirectory(fsys, Split(destPath), directoryMode, fault) } })

\* Update, "if file mode has changed, update the file mode": done whenever
\* the plan holds a file_mode, on every operating system.
changeMode(fsys, destPath, fileMode, fault) ==
    Only({
    IF HasError(m.diags) THEN [fs |-> fsys, diags |-> m.diags]
    ELSE IF fault = "chmod" \/ nodeAt(fsys, destPath.comps).kind = "none"
    THEN [fs |-> fsys, diags |-> <<UpdateErrorDiag>>]
    ELSE [fs |-> osChmod(fsys, destPath.comps, m.mode), diags |-> <<>>]
    : m \in { ParseFilesystemMode(fileMode) } })

\* A faulty variant of outputFile: the tracked path stays the old one.
outputFileKept(srcPath, destPath) == Some(srcPath)

\* Update, state.OutputFile = types.StringValue(destPath) when the paths
\* differ.
outputFile(srcPath, destPath) == IF srcPath # destPath THEN Some(destPath) ELSE Some(srcPath)

\* PackageDownload.Update: an error leaves the prior state in place,
\* whatever was done to the filesystem before it.  a is the absolute
\* destination, mv the move, ch the change of mode.
update(fsys, state, plan, fault) ==
    LET srcPath == state.OutputFile[1]
        folder == known(plan.LocalFolder, state.LocalFolder)[1]
        filename == known(plan.LocalFilename, state.LocalFilename)[1]
        merged == [state EXCEPT
                      !.DirectoryMode = known(plan.DirectoryMode, @),
                      !.OverwriteExistingFile = known(plan.OverwriteExistingFile, @),
                      !.LocalFolder = known(plan.LocalFolder, @),
                      !.LocalFilename = known(plan.LocalFilename, @)]
        out(st, fsys2, diags) == Outcome(st, fsys2, diags, <<>>, <<>>, FALSE, FALSE) IN
    Only({
    IF HasError(a.diags) THEN out(Some(state), fsys, a.diags)
    ELSE Only({
    IF HasError(mv.diags) THEN out(Some(state), mv.fs, mv.diags)
    ELSE Only({
    IF HasError(ch.diags) THEN out(Some(state), ch.fs, ch.diags)
    ELSE out(Some([merged EXCEPT
                      !.OutputFile = outputFile(srcPath, a.path),
                      !.FileMode = known(plan.FileMode, @)]),
             ch.fs, <<>>)
    : ch \in { IF plan.FileMode # None
               THEN changeMode(mv.fs, a.path, plan.FileMode[1], fault)
               ELSE [fs |-> mv.fs, diags |-> <<>>] } })
    : mv \in { IF srcPath # a.path
               THEN moveFile(fsys, srcPath, a.path, merged.DirectoryMode[1], fault)
               ELSE [fs |-> fsys, diags |-> <<>>] } })
    : a \in { ToAbsolutePath(Join(folder, filename), fault) } })

DeleteErrorDiag ==
    PlainDiag("Download Package Removal Error", "ERR_RESOURCE_PACKAGE_DOWNLOAD_DELETE", 0)

\* A faulty variant of missingIsDone: a file that is gone is an error.
missingIsDoneNever(fileInfo) == FALSE

\* Delete, os.IsNotExist(err): "nothing to do - file no longer exists".
missingIsDone(fileInfo) == fileInfo.kind = "none"

\* A faulty variant of refusesDirectory: a directory is removed like a file.
refusesDirectoryNever(fileInfo) == FALSE

\* Delete, fileInfo.IsDir(): an error.
refusesDirectory(fileInfo) == fileInfo.kind = "dir"

\* PackageDownload.Delete: without an error the framework drops the
\* resource from the state; with one the state stays.
delete(fsys, state, fault) ==
    LET fileInfo == nodeAt(fsys, state.OutputFile[1].comps)
        out(st, fsys2, diags) == Outcome(st, fsys2, diags, <<>>, <<>>, FALSE, FALSE) IN
    IF state.OutputFile = None THEN out(None, fsys, <<>>)
    ELSE IF missingIsDone(fileInfo) THEN out(None, fsys, <<>>)
    ELSE IF fault = "statFile" \/ fileInfo.kind = "none"
    THEN out(Some(state), fsys, <<DeleteErrorDiag>>)
    ELSE IF refusesDirectory(fileInfo) THEN out(Some(state), fsys, <<DeleteErrorDiag>>)
    ELSE IF fault = "remove" THEN out(Some(state), fsys, <<DeleteErrorDiag>>)
    ELSE out(None, osRemove(fsys, state.OutputFile[1].comps), <<>>)

-----------------------------------------------------------------------------
(* API calls as a state machine *)

NoOp == [name |-> "none", kind |-> "none", query |-> EmptyQuery]

\* The last download or resource step: its name, the destination path it
\* was given, the overwrite flag, the filesystem and the tracked state before
\* it, the diagnostics it returned, whether it created the destination file,
\* whether DownloadPackage returned without error, whether it panicked.
Rop(name, path, overwrite, before, tracked, diags, created, downloaded, panic) ==
    [ name |-> name, path |-> path, overwrite |-> overwrite, before |-> before,
      tracked |-> tracked, diags |-> diags, created |-> created,
      downloaded |-> downloaded, panic |-> panic ]

NoRop == Rop("none", Path(TRUE, <<>>), FALSE, EmptyFs, None, <<>>, FALSE, FALSE, FALSE)

DefaultPlan == Plan(AbsFolder, "f", <<0, 6, 4, 4>>, TRUE)

\* No API call in progress, nothing requested yet.
NoCall ==
    /\ pc = "idle"
    /\ op = NoOp
    /\ getQueryParams = EmptyQuery
    /\ acc = <<>>
    /\ requests = <<>>
    /\ served = <<>>
    /\ decoded = 0
    /\ ret = NoRet

InitApi ==
    /\ NoCall
    /\ goos = "linux"
    /\ fs = EmptyFs
    /\ cfg = DefaultPlan
    /\ tfstate = None
    /\ rop = NoRop
    /\ planResp = NoPlanResponse
    /\ steps = 0

\* A caller enters FindPackages / FindSites / FindGroups.
FindCall ==
    /\ pc = "idle"
    /\ \E kind \in Kinds, query \in Queries :
        /\ pc' = "loop"
        /\ op' = [name |-> "Find", kind |-> kind, query |-> query]
        /\ getQueryParams' = query
        /\ acc' = <<>>
        /\ UNCHANGED <<requests, served, decoded, ret>>
        /\ UNCHANGED resVars

\* One pass of the find loop: a request, its reply, and what the loop does
\* with it.
FindPage ==
    /\ pc = "loop"
    /\ Len(requests) < MaxPages
    /\ \E reply \in Replies :
        /\ LET step == findPage(op.kind, getQueryParams, acc, reply) IN
            /\ requests' = Append(requests, Request(Uri(op.kind), getQueryParams))
            /\ served' = Append(served, reply)
            /\ decoded' = decoded + step.decoded
            /\ getQueryParams' = step.query
            /\ IF step.next = "loop"
               THEN /\ pc' = "loop"
                    /\ acc' = step.items
                    /\ ret' = ret
               ELSE /\ pc' = "returned"
                    /\ acc' = acc
                    /\ ret' = Ret(step.items, step.isNil, None, None, step.diags, FALSE)
        /\ UNCHANGED op
        /\ UNCHANGED resVars

\* The ids looked up.
Ids == {"p1", "p2"}

\* A call of GetPackage / GetSite / GetGroup.
GetCall ==
    /\ pc = "idle"
    /\ \E kind \in Kinds, id \in Ids, reply \in Replies :
        /\ LET query == [EmptyQuery EXCEPT !["ids"] = Some(id)]
               r == getById(kind, reply) IN
            /\ op' = [name |-> "Get", kind |-> kind, query |-> query]
            /\ requests' = << Request(Uri(kind), query) >>
            /\ served' = << reply >>
            /\ ret' = r
            /\ pc' = IF r.panic THEN "panicked" ELSE "returned"
        /\ UNCHANGED <<getQueryParams, acc, decoded>>
        /\ UNCHANGED resVars

\* A plain call of client.Get, which hands back the envelope.
ClientGet ==
    /\ pc = "idle"
    /\ \E kind \in Kinds, query \in Queries, reply \in Replies :
        /\ LET r == Get(reply) IN
            /\ op' = [name |-> "ClientGet", kind |-> kind, query |-> query]
            /\ requests' = << Request(Uri(kind), query) >>
            /\ served' = << reply >>
            /\ ret' = Ret(<<>>, TRUE, None, r.result, r.diags, FALSE)
            /\ pc' = "returned"
        /\ UNCHANGED <<getQueryParams, acc, decoded>>
        /\ UNCHANGED resVars

NextApi == FindCall \/ FindPage \/ GetCall \/ ClientGet

SpecApi == InitApi /\ [][NextApi]_vars


-----------------------------------------------------------------------------
(* Properties of the API calls, stated on the replies as the server sent   *)
(* them.                                                                   *)

\* The last reply served.
LastReply == served[Len(served)]

\* The body of a reply arrived and is an envelope.
WireEnvelope(reply) ==
    reply.transportOk /\ reply.body.readOk /\ reply.body.wellFormed

\* The shape in which an endpoint sends its entities: /sites wraps the list
\* in an object, the other endpoints send the list itself.
WireShape(kind) == IF kind = "Site" THEN "object" ELSE "array"

\* A reply is a successful page of a find on the given kind.
WirePage(kind, reply) ==
    /\ WireEnvelope(reply)
    /\ reply.status < 400
    /\ reply.body.dataKind \in {WireShape(kind), "null"}

\* The items a page carries.
WireItems(reply) ==
    IF reply.body.dataKind \in {"array", "object"} THEN reply.body.items ELSE <<>>

\* The page names no next page: next_cursor is omitted or is "".
WireCursorEmpty(reply) == reply.body.nextCursor \in {None, Some("")}

RECURSIVE WireConcat(_)
WireConcat(replies) ==
    IF replies = <<>> THEN <<>>
    ELSE WireItems(Head(replies)) \o WireConcat(Tail(replies))

\* The server answered a find with n >= 1 successful pages, all but the last
\* naming a next page.
Drained ==
    /\ op.name = "Find"
    /\ Len(served) >= 1
    /\ \A i \in 1..Len(served) : WirePage(op.kind, served[i])
    /\ \A i \in 1..(Len(served) - 1) : ~WireCursorEmpty(served[i])
    /\ WireCursorEmpty(LastReply)

\* C1: a find answered with n >= 1 successful pages, of which only the last
\* has an empty next cursor, returns the concatenation of the n pages' items
\* in page order, without error diagnostic, after exactly n requests and n
\* decoded data payloads.
C1_FindReturnsAllPagesInOrder ==
    Drained =>
        /\ pc = "returned"
        /\ ret.items = WireConcat(served)
        /\ ret.diags = <<>>
        /\ ~ret.panic
        /\ Len(requests) = Len(served)
        /\ decoded = Len(served)

\* C1 witness: three pages c1 -> c2 -> "" of sites, whose items come back in
\* page order.
C1_Witness ==
    /\ Drained
    /\ op.kind = "Site"
    /\ Len(served) = 3
    /\ served[1].body.nextCursor = Some("c1")
    /\ served[2].body.nextCursor = Some("c2")
    /\ served[3].body.nextCursor = Some("")
    /\ ret.items = <<"e1", "e2", "e1", "e1">>

\* C2: a find stops exactly at the first page whose next cursor is empty
\* (omitted or ""): no request follows such a page, the call has returned
\* normally right after it, and after a page with a non-empty cursor the call
\* has not returned.
C2_EmptyCursorAloneEndsTheDrain ==
    op.name = "Find" =>
        /\ \A i \in 1..(Len(served) - 1) :
              WirePage(op.kind, served[i]) /\ ~WireCursorEmpty(served[i])
        /\ (Len(served) >= 1 /\ WirePage(op.kind, LastReply)) =>
              IF WireCursorEmpty(LastReply)
              THEN pc = "returned" /\ ret.diags = <<>> /\ ret.items = WireConcat(served)
              ELSE pc = "loop" /\ ret = NoRet
                     /\ getQueryParams["cursor"] = LastReply.body.nextCursor

\* C2 witness: an empty page with a cursor did not end the drain, and the
\* page that omits next_cursor did.
C2_Witness ==
    /\ op.name = "Find"
    /\ Len(served) = 2
    /\ WirePage(op.kind, served[1])
    /\ WireItems(served[1]) = <<>>
    /\ served[2].body.nextCursor = None
    /\ WirePage(op.kind, served[2])
    /\ pc = "returned"
    /\ ret.items = <<"e1">>

\* C3: when a page request of a find fails (transport failure, status >= 400,
\* an unreadable or unparsable body, a data payload that does not decode), the
\* find returns a nil list and at least one error diagnostic, and no request
\* was issued after a failed one.
C3_FailedPageFailsTheFind ==
    op.name = "Find" =>
        /\ \A i \in 1..(Len(served) - 1) : WirePage(op.kind, served[i])
        /\ Len(requests) = Len(served)
        /\ (Len(served) >= 1 /\ ~WirePage(op.kind, LastReply)) =>
              /\ pc = "returned"
              /\ ret.items = <<>>
              /\ ret.isNil
              /\ Len(ret.diags) >= 1
              /\ ~ret.panic

\* C3 witness: the third page fails to decode after two pages with items.
C3_Witness ==
    /\ op.name = "Find"
    /\ Len(served) = 3
    /\ WireItems(served[1]) # <<>>
    /\ WireItems(served[2]) # <<>>
    /\ WireEnvelope(served[3])
    /\ served[3].status = 200
    /\ served[3].body.dataKind = "scalar"
    /\ pc = "returned"
    /\ ret.isNil

\* The items a successful reply to an id lookup carries.
WireLookup(kind, reply) ==
    /\ WireEnvelope(reply)
    /\ reply.status < 400
    /\ reply.body.dataKind = WireShape(kind)

\* C4: GetPackage, GetSite and GetGroup enforce exactly one result.  A
\* successful reply carrying 0 items gives a not-found error and no entity,
\* one carrying 2 or more items a multiple-found error and no entity, one
\* carrying exactly 1 item gives that item and no error diagnostic.
C4_GetEnforcesExactlyOne ==
    (op.name = "Get" /\ WireLookup(op.kind, LastReply)) =>
        LET n == Len(LastReply.body.items) IN
        /\ pc = "returned"
        /\ n = 0 => /\ ret.entity = None
                    /\ Len(ret.diags) = 1
                    /\ ret.diags[1].summary = op.kind \o " Not Found"
        /\ n >= 2 => /\ ret.entity = None
                     /\ Len(ret.diags) = 1
                     /\ ret.diags[1].summary = "Multiple " \o op.kind \o "s Found"
        /\ n = 1 => /\ ret.entity = Some(LastReply.body.items[1])
                    /\ ret.diags = <<>>

\* The last reply has an error status and its body was read.
ErrorReply ==
    /\ Len(served) >= 1
    /\ LastReply.transportOk
    /\ LastReply.status >= 400
    /\ LastReply.body.readOk

\* The structured errors of the last reply's envelope.
WireErrors ==
    IF LastReply.body.wellFormed /\ LastReply.body.errorsKind = "list"
    THEN LastReply.body.errors ELSE <<>>

\* Nothing but diagnostics came back.
NothingReturned ==
    /\ ret.result = None
    /\ ret.entity = None
    /\ ret.items = <<>>
    /\ ret.isNil

C6_GenericDiagnosticOtherwise ==
    /\ (ErrorReply /\ Len(WireErrors) = 0) =>
          /\ pc = "returned"
          /\ Len(ret.diags) = 1
          /\ ret.diags[1].body = LastReply.body
          /\ ret.diags[1].status = LastReply.status
    /\ (Len(served) >= 1 /\ LastReply.transportOk /\ LastReply.status >= 400) =>
          /\ pc = "returned"
          /\ Len(ret.diags) >= 1
          /\ NothingReturned

\* C6 witness: status 400 with a body that is not JSON.
C6_Witness ==
    /\ ErrorReply
    /\ LastReply.status = 400
    /\ LastReply.body = GarbageBody
    /\ Len(ret.diags) = 1
    /\ ret.diags[1].body = GarbageBody

-----------------------------------------------------------------------------
(* DownloadPackage and the resource handlers as state machines *)

\* Everything the environment can do to one operation.
Envs ==
    { Env(f, s, p, l) :
        f \in Faults, s \in StreamReplies, p \in Payloads, l \in LookupReplies }

\* The file_mode strings handed to DownloadPackage: "0644", "600", and one
\* that is no octal number.
FileModes == { <<0, 6, 4, 4>>, <<6, 0, 0>>, <<9>> }

\* The destinations handed to DownloadPackage.
Destinations == { Join(AbsFolder, "f"), Join(RelFolder, "f") }

\* DownloadPackage is called on a filesystem in any of its starting shapes.
InitDownload ==
    /\ NoCall
    /\ goos \in Systems
    /\ fs \in InitialFilesystems
    /\ cfg = DefaultPlan
    /\ tfstate = None
    /\ rop = NoRop
    /\ planResp = NoPlanResponse
    /\ steps = 0

\* One call of client.DownloadPackage.
DownloadCall ==
    /\ rop.name = "none"
    /\ \E path \in Destinations, fileMode \in FileModes, overwrite \in BOOLEAN,
          env \in Envs :
        \E d \in { DownloadPackage(fs, goos, "p1", "s1", path, <<0, 7, 5, 5>>, fileMode,
                                   overwrite, env) } :
        /\ fs' = d.fs
        /\ requests' = d.requests
        /\ served' = repliesTo(d.requests, env)
        /\ rop' = Rop("DownloadPackage", path, overwrite, fs, None, d.diags, d.created,
                      ~d.panic /\ ~HasError(d.diags), d.panic)
    /\ UNCHANGED <<callVars, goos, cfg, tfstate, planResp, steps>>

NextDownload == DownloadCall

SpecDownload == InitDownload /\ [][NextDownload]_vars

\* The filesystems a resource starts from: the folder /d is yet to be made.
ResourceFilesystems == { f \in InitialFilesystems : f[<<"d">>].kind = "none" }

\* The resource is configured and not yet created.
InitResource ==
    /\ NoCall
    /\ goos \in Systems
    /\ fs \in ResourceFilesystems
    /\ cfg \in Plans
    /\ tfstate = None
    /\ rop = NoRop
    /\ planResp = NoPlanResponse
    /\ steps = 0

\* Terraform calls Create for the planned resource.
Create ==
    /\ steps < MaxSteps
    /\ steps' = steps + 1
    /\ rop.name = "none"
    /\ tfstate = None
    /\ \E lookup \in LookupReplies, env \in Envs :
        \E o \in { create(fs, goos, cfg, lookup, env) } :
        /\ fs' = o.fs
        /\ tfstate' = o.state
        /\ requests' = o.requests
        /\ served' = o.served
        /\ rop' = Rop("Create", Join(cfg.LocalFolder[1], cfg.LocalFilename[1]),
                      cfg.OverwriteExistingFile[1], fs, tfstate, o.diags, FALSE,
                      o.downloaded, o.panic)
    /\ planResp' = NoPlanResponse
    /\ UNCHANGED <<callVars, goos, cfg>>

\* The system calls that can fail in Read.
ReadFaults == {"none", "statFile", "hash"}

\* The replies to the lookup Read and ModifyPlan make: the package as the
\* server has it, a list that is empty against its own total, an error
\* envelope.
RefreshReplies == { l \in LookupReplies : l.transportOk /\ l.body.totalItems # Some(0) }

\* Terraform calls Read for the tracked resource.
Read ==
    /\ steps < MaxSteps
    /\ steps' = steps + 1
    /\ tfstate # None
    /\ \E lookup \in RefreshReplies, fault \in ReadFaults :
        \E o \in { read(fs, goos, tfstate[1], lookup, fault) } :
        /\ tfstate' = o.state
        /\ requests' = o.requests
        /\ served' = o.served
        /\ rop' = Rop("Read", tfstate[1].OutputFile[1], FALSE, fs, tfstate, o.diags,
                      FALSE, FALSE, o.panic)
    /\ planResp' = NoPlanResponse
    /\ UNCHANGED <<callVars, goos, cfg, fs>>

\* Terraform plans a change of the tracked resource.
ModifyPlan ==
    /\ steps < MaxSteps
    /\ steps' = steps + 1
    /\ tfstate # None
    /\ \E lookup \in RefreshReplies :
        \E o \in { modifyPlan(tfstate, lookup) } :
        /\ planResp' = o.resp
        /\ requests' = o.requests
        /\ served' = o.served
        /\ rop' = Rop("ModifyPlan", tfstate[1].OutputFile[1], FALSE, fs, tfstate, o.diags,
                      FALSE, FALSE, o.panic)
    /\ UNCHANGED <<callVars, goos, cfg, fs, tfstate>>

\* Somebody deletes the tracked file behind the provider's back.
ExternalRemove ==
    /\ steps < MaxSteps
    /\ steps' = steps + 1
    /\ tfstate # None
    /\ nodeAt(fs, tfstate[1].OutputFile[1].comps).kind = "file"
    /\ fs' = osRemove(fs, tfstate[1].OutputFile[1].comps)
    /\ rop' = [NoRop EXCEPT !.name = "ExternalRemove"]
    /\ planResp' = NoPlanResponse
    /\ UNCHANGED <<callVars, requests, served, goos, cfg, tfstate>>

\* Somebody rewrites the tracked file behind the provider's back.
ExternalWrite ==
    /\ steps < MaxSteps
    /\ steps' = steps + 1
    /\ tfstate # None
    /\ nodeAt(fs, tfstate[1].OutputFile[1].comps).kind = "file"
    /\ \E content \in Payloads :
        /\ nodeAt(fs, tfstate[1].OutputFile[1].comps).content # content
        /\ fs' = [fs EXCEPT ![tfstate[1].OutputFile[1].comps] =
                                Node("file", content, @.mode)]
    /\ rop' = [NoRop EXCEPT !.name = "ExternalWrite"]
    /\ planResp' = NoPlanResponse
    /\ UNCHANGED <<callVars, requests, served, goos, cfg, tfstate>>

\* A faulty variant of requiresReplace: every change is updated in place.
requiresReplaceNever(plan, state) == FALSE

\* stringplanmodifier.RequiresReplace() on package_id and site_id: a plan that
\* differs from the state in one of them is a replacement, not an update.
requiresReplace(plan, state) ==
    plan.PackageId # state.PackageId \/ plan.SiteId # state.SiteId

\* The attributes Update can change in place.
Updatable ==
    {"DirectoryMode", "FileMode", "LocalFilename", "LocalFolder", "OverwriteExistingFile"}

\* The system calls that can fail in Update.
UpdateFaults == {"none", "abs", "statFolder", "mkdir", "rename", "chmod"}

\* Terraform calls Update when the configuration differs from the tracked
\* state in attributes that need no replacement.
Update ==
    /\ steps < MaxSteps
    /\ steps' = steps + 1
    /\ tfstate # None
    /\ ~requiresReplace(cfg, tfstate[1])
    /\ \E k \in Updatable : cfg[k] # tfstate[1][k]
    /\ \E fault \in UpdateFaults :
        \E o \in { update(fs, tfstate[1], cfg, fault) } :
        /\ fs' = o.fs
        /\ tfstate' = o.state
        /\ requests' = o.requests
        /\ served' = o.served
        /\ rop' = Rop("Update", Join(cfg.LocalFolder[1], cfg.LocalFilename[1]),
                      cfg.OverwriteExistingFile[1], fs, tfstate, o.diags, FALSE, FALSE,
                      o.panic)
    /\ planResp' = NoPlanResponse
    /\ UNCHANGED <<callVars, goos, cfg>>

\* The system calls that can fail in Delete.
DeleteFaults == {"none", "statFile", "remove"}

\* Terraform calls Delete for the tracked resource.
Delete ==
    /\ steps < MaxSteps
    /\ steps' = steps + 1
    /\ tfstate # None
    /\ \E fault \in DeleteFaults :
        \E o \in { delete(fs, tfstate[1], fault) } :
        /\ fs' = o.fs
        /\ tfstate' = o.state
        /\ requests' = o.requests
        /\ served' = o.served
        /\ rop' = Rop("Delete", tfstate[1].OutputFile[1], FALSE, fs, tfstate, o.diags,
                      FALSE, FALSE, o.panic)
    /\ planResp' = NoPlanResponse
    /\ UNCHANGED <<callVars, goos, cfg>>

\* Terraform repeats a Delete that succeeded, with the state it had then.
DeleteAgain ==
    /\ steps < MaxSteps
    /\ steps' = steps + 1
    /\ tfstate = None
    /\ rop.name = "Delete"
    /\ \E fault \in DeleteFaults :
        \E o \in { delete(fs, rop.tracked[1], fault) } :
        /\ fs' = o.fs
        /\ tfstate' = None
        /\ requests' = o.requests
        /\ served' = o.served
        /\ rop' = Rop("DeleteAgain", rop.path, FALSE, fs, rop.tracked, o.diags,
                      FALSE, FALSE, o.panic)
    /\ planResp' = NoPlanResponse
    /\ UNCHANGED <<callVars, goos, cfg>>

\* The configuration of another package, in the place of the default one.
OtherPackage == [DefaultPlan EXCEPT !.PackageId = Some("p2"), !.LocalFolder = Some(RelFolder)]

\* The configuration of the tracked resource is edited.
EditConfig ==
    /\ steps < MaxSteps
    /\ steps' = steps + 1
    /\ tfstate # None
    /\ \E plan \in (Plans \cup {OtherPackage}) \ {cfg} : cfg' = plan
    /\ rop' = [NoRop EXCEPT !.name = "EditConfig"]
    /\ planResp' = NoPlanResponse
    /\ UNCHANGED <<callVars, requests, served, goos, fs, tfstate>>

\* Somebody makes a directory where the tracked file was.
ExternalMkdir ==
    /\ steps < MaxSteps
    /\ steps' = steps + 1
    /\ tfstate # None
    /\ nodeAt(fs, tfstate[1].OutputFile[1].comps).kind = "none"
    /\ nodeAt(fs, Split(tfstate[1].OutputFile[1]).comps).kind = "dir"
    /\ fs' = [fs EXCEPT ![tfstate[1].OutputFile[1].comps] = DirNode]
    /\ rop' = [NoRop EXCEPT !.name = "ExternalMkdir"]
    /\ planResp' = NoPlanResponse
    /\ UNCHANGED <<callVars, requests, served, goos, cfg, tfstate>>

NextResource ==
    \/ Create \/ Read \/ ModifyPlan \/ Update \/ Delete \/ DeleteAgain
    \/ EditConfig \/ ExternalRemove \/ ExternalWrite \/ ExternalMkdir

SpecResource == InitResource /\ [][NextResource]_vars

-----------------------------------------------------------------------------
(* Properties of DownloadPackage and of the resource handlers *)

\* The absolute path of the destination the last step was given.
Dest == IF rop.path.abs THEN rop.path.comps ELSE Cwd \o rop.path.comps

\* The destination as the last step left it, and as it found it.
DestNow == nodeAt(fs, Dest)
DestBefore == nodeAt(rop.before, Dest)

\* C7: whenever DownloadPackage fails after it has created the destination
\* file (the stream, the stat, the hash or the metadata lookup fails), the
\* destination file does not exist when it returns.
\* The file has been created once the download request is issued.
C7_NoPartialFileAfterFailedDownload ==
    (rop.name = "DownloadPackage" /\ rop.created /\ requests # <<>>
        /\ HasError(rop.diags))
        => DestNow.kind = "none"

\* C8: when DownloadPackage is called with overwrite false and the
\* destination file already exists, it returns an error, issues no HTTP
\* request, and leaves the existing file as it was.
C8_ExistingFileIsKeptWithoutOverwrite ==
    (rop.name = "DownloadPackage" /\ ~rop.overwrite /\ DestBefore.kind = "file")
        => /\ HasError(rop.diags)
           /\ requests = <<>>
           /\ fs = rop.before

C8_Witness ==
    /\ rop.name = "DownloadPackage"
    /\ ~rop.overwrite
    /\ DestBefore = Node("file", "y", octalValue(<<6, 0, 0>>))
    /\ Len(rop.diags) = 1
    /\ rop.diags[1].summary = "File Exists"
    /\ DestNow = DestBefore

\* The first reply of a handler is a package lookup that yields a package.
LookupSucceeded ==
    /\ Len(served) >= 1
    /\ served[1].transportOk
    /\ served[1].status < 400
    /\ served[1].body.readOk
    /\ served[1].body.wellFormed
    /\ served[1].body.totalItems = Some(1)
    /\ served[1].body.dataKind = "array"
    /\ Len(served[1].body.items) >= 1

\* The package as the server reported it at the start of the handler.
ReportedAtStart == served[1].body.items[1]

\* The downloaded file matches the size and SHA1 reported at the start.
DiskMatchesReported ==
    /\ sizeOf(DestNow.content) = ReportedAtStart.FileSize
    /\ sha1Of(DestNow.content) = ReportedAtStart.SHA1

\* C9: Create records the resource exactly when the download succeeds and
\* the downloaded file's size and SHA1 both equal the values the server
\* reported at the start of Create; a download that succeeds with a mismatch
\* is an error and records nothing; and when Create records the resource,
\* the tracked size and SHA1 are the server's values and the file's.
C9_CreateRecordsOnlyVerifiedDownloads ==
    rop.name = "Create"
        => /\ (tfstate # None) <=> (rop.downloaded /\ DiskMatchesReported)
           /\ (rop.downloaded /\ ~DiskMatchesReported)
                => (HasError(rop.diags) /\ tfstate = None)
           /\ tfstate # None
                => /\ rop.diags = <<>>
                   /\ DestNow.kind = "file"
                   /\ tfstate[1].OutputFile = Some(Path(TRUE, Dest))
                   /\ tfstate[1].FileSize = Some(ReportedAtStart.FileSize)
                   /\ tfstate[1].FileSize = Some(sizeOf(DestNow.content))
                   /\ tfstate[1].SHA1 = Some(ReportedAtStart.SHA1)
                   /\ tfstate[1].SHA1 = Some(sha1Of(DestNow.content))

C9_Witness ==
    /\ rop.name = "Create"
    /\ rop.downloaded
    /\ tfstate # None
    /\ tfstate[1].FileSize = Some(100)
    /\ tfstate[1].SHA1 = Some("bbb")
    /\ DestNow.content = "y"

\* The file the resource tracked when the last step began.
TrackedFile == nodeAt(rop.before, rop.tracked[1].OutputFile[1].comps)

TrackedNow == nodeAt(fs, tfstate[1].OutputFile[1].comps)

\* C11: after every Read that completes without error and keeps the
\* resource in state, the tracked file_size and sha1 are the size and SHA1
\* of the file now at output_file, whatever was tracked before the Read.
C11_ReadRefreshesSizeAndSha1FromDisk ==
    (rop.name = "Read" /\ ~HasError(rop.diags) /\ ~rop.panic /\ tfstate # None)
        => /\ TrackedNow.kind = "file"
           /\ tfstate[1].FileSize = Some(sizeOf(TrackedNow.content))
           /\ tfstate[1].SHA1 = Some(sha1Of(TrackedNow.content))

\* A Read that replaced both tracked values by those of a rewritten file.
C11_Witness ==
    /\ rop.name = "Read"
    /\ rop.diags = <<>>
    /\ tfstate # None
    /\ rop.tracked[1].FileSize = Some(100)
    /\ rop.tracked[1].SHA1 = Some("aaa")
    /\ TrackedNow.content = "z"
    /\ tfstate[1].FileSize = Some(200)
    /\ tfstate[1].SHA1 = Some("ccc")

\* C12: the plan-time check of a tracked resource marks file_size as
\* requiring replacement exactly when the size the server reports differs
\* from the tracked file_size, and sha1 exactly when the reported hash
\* differs from the tracked sha1: a different hash of equal size marks sha1
\* alone, and nothing is marked when both agree.
C12_PlanMarksExactlyTheDifferingAttributes ==
    (rop.name = "ModifyPlan" /\ LookupSucceeded)
        => /\ rop.diags = <<>>
           /\ ("file_size" \in planResp.RequiresReplace)
                <=> (ReportedAtStart.FileSize # tfstate[1].FileSize[1])
           /\ ("sha1" \in planResp.RequiresReplace)
                <=> (ReportedAtStart.SHA1 # tfstate[1].SHA1[1])
           /\ planResp.RequiresReplace \subseteq {"file_size", "sha1"}

\* The hash differs, the size does not: sha1 alone is marked.
C12_Witness ==
    /\ rop.name = "ModifyPlan"
    /\ LookupSucceeded
    /\ tfstate[1].FileSize = Some(100)
    /\ tfstate[1].SHA1 = Some("aaa")
    /\ ReportedAtStart.FileSize = 100
    /\ ReportedAtStart.SHA1 = "bbb"
    /\ planResp.RequiresReplace = {"sha1"}

\* The last step left every path but these as it found it.
OnlyChanged(paths) == \A p \in DOMAIN fs : p \in paths \/ fs[p] = rop.before[p]

\* The disk holds content the server does not report for the package.
DiskDiffersFromReported ==
    \/ sizeOf(TrackedNow.content) # ReportedAtStart.FileSize
    \/ sha1Of(TrackedNow.content) # ReportedAtStart.SHA1

\* C13: once the file at output_file holds content whose size or SHA1
\* differs from what the server reports, a Read stores the local values, and
\* the plan-time check that follows it marks file_size and/or sha1 as
\* requiring replacement: each one that differs.  Update never reconciles
\* the mismatch: it changes neither the content of the file nor the tracked
\* file_size and sha1.
C13_MismatchIsReconciledOnlyByReplacement ==
    /\ (rop.name = "Read" /\ rop.diags = <<>> /\ ~rop.panic /\ tfstate # None)
            => /\ tfstate[1].FileSize = Some(sizeOf(TrackedNow.content))
               /\ tfstate[1].SHA1 = Some(sha1Of(TrackedNow.content))
    /\ (rop.name = "ModifyPlan" /\ LookupSucceeded /\ TrackedNow.kind = "file"
            /\ tfstate[1].FileSize = Some(sizeOf(TrackedNow.content))
            /\ tfstate[1].SHA1 = Some(sha1Of(TrackedNow.content))
            /\ DiskDiffersFromReported)
            => /\ planResp.RequiresReplace # {}
               /\ ("file_size" \in planResp.RequiresReplace)
                    <=> (sizeOf(TrackedNow.content) # ReportedAtStart.FileSize)
               /\ ("sha1" \in planResp.RequiresReplace)
                    <=> (sha1Of(TrackedNow.content) # ReportedAtStart.SHA1)
    /\ rop.name = "Update"
            => /\ tfstate[1].FileSize = rop.tracked[1].FileSize
               /\ tfstate[1].SHA1 = rop.tracked[1].SHA1
               /\ requests = <<>>
               /\ TrackedFile.kind = "file"
                    => \E p \in {rop.tracked[1].OutputFile[1].comps, Dest} :
                          /\ fs[p].kind = "file"
                          /\ fs[p].content = TrackedFile.content

\* The plan-time check after a Read that stored the values of a file
\* rewritten with content of another size.
C13_Witness ==
    /\ rop.name = "ModifyPlan"
    /\ LookupSucceeded
    /\ steps = 4
    /\ TrackedNow.content = "z"
    /\ tfstate[1].FileSize = Some(200)
    /\ tfstate[1].SHA1 = Some("ccc")
    /\ tfstate[1].Version = Some("1.0")
    /\ ReportedAtStart = PackageOf("x", "1.0")
    /\ planResp.RequiresReplace = {"file_size", "sha1"}

\* The last step is an Update that reported no error.
UpdateSucceeded == rop.name = "Update" /\ rop.diags = <<>> /\ ~rop.panic

\* The plan of the last Update names another folder or filename than the
\* ones tracked before it.
PlacementChanged ==
    \/ cfg.LocalFolder # rop.tracked[1].LocalFolder
    \/ cfg.LocalFilename # rop.tracked[1].LocalFilename

\* The path tracked as output_file before the last step.
OldPath == rop.tracked[1].OutputFile[1].comps

\* C14: Update with a changed local_folder or local_filename moves the
\* artifact without downloading it again: after a successful Update the file
\* with the same content is at the new absolute path, nothing is left at the
\* old path, the tracked output_file, local_folder and local_filename are
\* the new ones, and Update issued no HTTP request.  The artifact is the
\* regular file Update finds at the tracked output_file.
C14_UpdateMovesTheFileWithoutDownload ==
    (UpdateSucceeded /\ PlacementChanged /\ TrackedFile.kind = "file")
        => /\ DestNow.kind = "file"
           /\ DestNow.content = TrackedFile.content
           /\ nodeAt(fs, OldPath).kind = "none"
           /\ tfstate[1].OutputFile = Some(Path(TRUE, Dest))
           /\ tfstate[1].LocalFolder = cfg.LocalFolder
           /\ tfstate[1].LocalFilename = cfg.LocalFilename
           /\ requests = <<>>
           /\ OnlyChanged({OldPath, Dest, SubSeq(Dest, 1, Len(Dest) - 1)})

\* The file made under the absolute folder was moved under the relative
\* one, whose directory Update had to make.
C14_Witness ==
    /\ UpdateSucceeded
    /\ rop.tracked[1].LocalFolder = Some(AbsFolder)
    /\ cfg.LocalFolder = Some(RelFolder)
    /\ nodeAt(rop.before, Cwd \o RelFolder.comps).kind = "none"
    /\ nodeAt(fs, Cwd \o RelFolder.comps).kind = "dir"
    /\ nodeAt(rop.before, <<"d", "f">>).content = "x"
    /\ nodeAt(fs, <<"w", "r", "f">>).content = "x"
    /\ nodeAt(fs, <<"d", "f">>) = NoNode
    /\ tfstate[1].OutputFile = Some(Path(TRUE, <<"w", "r", "f">>))

\* The plan of the last Update differs from the state tracked before it in
\* directory_mode or overwrite_existing_file and in nothing else.
OnlyFlagsChanged ==
    /\ rop.name = "Update"
    /\ ~PlacementChanged
    /\ cfg.FileMode = rop.tracked[1].FileMode
    /\ \/ cfg.DirectoryMode # rop.tracked[1].DirectoryMode
       \/ cfg.OverwriteExistingFile # rop.tracked[1].OverwriteExistingFile

\* C15: an Update in which only directory_mode and/or
\* overwrite_existing_file differ between plan and tracked state performs no
\* filesystem action at all (no directory creation, no rename, no chmod) and
\* only updates those tracked attributes.  With no filesystem action there
\* is no system call that can fail and nothing on disk changes.
C15_FlagOnlyUpdateTouchesNoFile ==
    OnlyFlagsChanged
        => /\ fs = rop.before
           /\ rop.diags = <<>>
           /\ tfstate[1] = [rop.tracked[1] EXCEPT
                               !.DirectoryMode = cfg.DirectoryMode,
                               !.OverwriteExistingFile = cfg.OverwriteExistingFile]

\* The last step is a Delete, the first or the repeated one.
Deleted == rop.name \in {"Delete", "DeleteAgain"}

\* C16: Delete of a resource whose tracked output_file points to a path
\* that does not exist returns success (no error diagnostic) and changes
\* nothing in the filesystem; so a second Delete after a successful Delete
\* is a no-op success.
C16_DeleteOfMissingFileIsNoOpSuccess ==
    /\ (Deleted /\ TrackedFile.kind = "none")
            => /\ rop.diags = <<>>
               /\ ~rop.panic
               /\ fs = rop.before
               /\ tfstate = None
    /\ rop.name = "DeleteAgain"
            => /\ TrackedFile.kind = "none"
               /\ rop.diags = <<>>
               /\ fs = rop.before

\* Delete of a resource whose file was removed behind the provider's back.
C16_Witness ==
    /\ rop.name = "Delete"
    /\ steps = 3
    /\ rop.tracked # None
    /\ TrackedFile = NoNode
    /\ rop.diags = <<>>
    /\ fs = rop.before
    /\ tfstate = None

\* C17: Delete never removes a directory: if output_file is a directory
\* Delete reports an error and removes nothing; if it is a regular file
\* Delete removes that one file and nothing else, so that after a successful
\* Delete no file exists at output_file.
C17_DeleteRemovesOneFileNeverADirectory ==
    Deleted
        => /\ TrackedFile.kind = "dir"
                => HasError(rop.diags) /\ fs = rop.before /\ tfstate = rop.tracked
           /\ fs # rop.before
                => /\ TrackedFile.kind = "file"
                   /\ fs = [rop.before EXCEPT ![OldPath] = NoNode]
           /\ (TrackedFile.kind = "file" /\ rop.diags = <<>>) => fs # rop.before
           /\ rop.diags = <<>>
                => nodeAt(fs, OldPath).kind = "none" /\ tfstate = None

\* Delete of a resource at whose output_file a directory now stands.
C17_Witness ==
    /\ rop.name = "Delete"
    /\ TrackedFile = DirNode
    /\ HasError(rop.diags)
    /\ nodeAt(fs, OldPath) = DirNode
    /\ tfstate # None

\* The absolute form of the tracked local_folder joined with the tracked
\* local_filename.
TrackedPlacement ==
    Only({ Path(TRUE, IF j.abs THEN j.comps ELSE Cwd \o j.comps)
           : j \in { Join(tfstate[1].LocalFolder[1], tfstate[1].LocalFilename[1]) } })

\* C19: whenever the download resource is tracked, output_file is an
\* absolute path equal to the absolute form of the tracked local_folder
\* joined with the tracked local_filename: after a successful Create and
\* after every Update.
C19_OutputFileIsAbsolutePlacement ==
    tfstate # None
        => /\ tfstate[1].OutputFile # None
           /\ tfstate[1].OutputFile[1].abs
           /\ tfstate[1].OutputFile = Some(TrackedPlacement)

\* An Update that moved the file from a relative folder to an absolute one.
C19_Witness ==
    /\ UpdateSucceeded
    /\ rop.tracked[1].LocalFolder = Some(RelFolder)
    /\ rop.tracked[1].OutputFile = Some(Path(TRUE, <<"w", "r", "f">>))
    /\ tfstate[1].LocalFolder = Some(AbsFolder)
    /\ tfstate[1].OutputFile = Some(Path(TRUE, <<"d", "f">>))

\* The permission bits the files had before the last step, and the bits
\* os.Create gives.
ModesBefore ==
    { rop.before[p].mode : p \in { q \in DOMAIN rop.before : rop.before[q].kind = "file" } }
        \cup { NewFile.mode }

\* C20: on a Windows target no operation of the download resource performs
\* the chmod step: file creation during Create skips it, Update with a
\* file_mode in the plan skips it, and Read does not overwrite the tracked
\* file_mode from the file.  Without a chmod every file keeps the bits it had
\* or was created with.
C20_NoChmodOnWindows ==
    goos = "windows"
        => /\ rop.name \in {"Create", "Update"}
                => \A p \in DOMAIN fs : fs[p].kind = "file" => fs[p].mode \in ModesBefore
           /\ (rop.name = "Read" /\ tfstate # None)
                => tfstate[1].FileMode = rop.tracked[1].FileMode

-----------------------------------------------------------------------------
(* Query parameters *)

\* The most fields set in a parameter struct, and the longest list.
MaxSetFields == 2
MaxListLen == 2

\* One "if" of a toStringMap: the field tested, the key written, the field
\* whose value is written, and the type of the two fields.
Field(test, key, from, type) == [test |-> test, key |-> key, from |-> from, type |-> type]

\* PackageQueryParams.toStringMap, in the order of the source.
PackageFields ==
    << Field("AccountIds", "accountIds", "AccountIds", "list"),
       Field("FileExtension", "fileExtension", "FileExtension", "string"),
       Field("Ids", "ids", "Ids", "list"),
       Field("MinorVersion", "minorVersion", "MinorVersion", "string"),
       Field("OSArches", "osArches", "OSArches", "list"),
       Field("OSTypes", "osTypes", "OSTypes", "list"),
       Field("PackageTypes", "packageTypes", "PackageTypes", "list"),
       Field("PlatformTypes", "platformTypes", "PlatformTypes", "list"),
       Field("RangerVersion", "rangerVersion", "RangerVersion", "string"),
       Field("Sha1", "sha1", "Sha1", "string"),
       Field("SiteIds", "siteIds", "SiteIds", "list"),
       Field("SortBy", "sortBy", "SortBy", "string"),
       Field("SortOrder", "sortOrder", "SortOrder", "string"),
       Field("Status", "status", "Status", "list"),
       Field("Version", "version", "Version", "string") >>

\* SiteQueryParams.toStringMap.
SiteFields ==
    << Field("AccountIds", "accountIds", "AccountIds", "list"),
       Field("AccountNameContains", "accountName__contains", "AccountNameContains", "list"),
       Field("ActiveLicenses", "activeLicenses", "ActiveLicenses", "int"),
       Field("AdminOnly", "adminOnly", "AdminOnly", "bool"),
       Field("AvailableMoveSites", "availableMoveSites", "AvailableMoveSites", "bool"),
       Field("CreatedAt", "createdAt", "CreatedAt", "string"),
       Field("Description", "description", "Description", "string"),
       Field("DescriptionContains", "description__contains", "DescriptionContains", "list"),
       Field("Expiration", "expiration", "Expiration", "string"),
       Field("ExternalId", "externalId", "ExternalId", "string"),
       Field("Features", "features", "Features", "list"),
       Field("IsDefault", "isDefault", "IsDefault", "bool"),
       Field("Modules", "modules", "Modules", "list"),
       Field("Name", "name", "Name", "string"),
       Field("NameContains", "name__contains", "NameContains", "list"),
       Field("Query", "query", "Query", "string"),
       Field("RegistrationToken", "registrationToken", "RegistrationToken", "string"),
       Field("SiteIds", "siteIds", "SiteIds", "list"),
       Field("SiteType", "siteType", "SiteType", "string"),
       Field("SortBy", "sortBy", "SortBy", "string"),
       Field("SortOrder", "sortOrder", "SortOrder", "string"),
       Field("States", "states", "States", "list"),
       Field("TotalLicenses", "totalLicenses", "TotalLicenses", "int"),
       Field("UpdatedAt", "updatedAt", "UpdatedAt", "string") >>

\* GroupQueryParams.toStringMap: the branch for UpdatedAtOrBefore writes
\* *p.UpdatedAtOrAfter.
GroupFields ==
    << Field("AccountIds", "accountIds", "AccountIds", "list"),
       Field("Description", "description", "Description", "string"),
       Field("GroupIds", "ids", "GroupIds", "list"),
       Field("IsDefault", "isDefault", "IsDefault", "bool"),
       Field("Name", "name", "Name", "string"),
       Field("Query", "query", "Query", "string"),
       Field("Rank", "rank", "Rank", "int"),
       Field("RegistrationToken", "registrationToken", "RegistrationToken", "string"),
       Field("SiteIds", "siteIds", "SiteIds", "list"),
       Field("SortBy", "sortBy", "SortBy", "string"),
       Field("SortOrder", "sortOrder", "SortOrder", "string"),
       Field("Types", "types", "Types", "list"),
       Field("UpdatedAfter", "updatedAt__gt", "UpdatedAfter", "string"),
       Field("UpdatedAtOrAfter", "updatedAt__gte", "UpdatedAtOrAfter", "string"),
       Field("UpdatedAtOrBefore", "updatedAt__lte", "UpdatedAtOrAfter", "string"),
       Field("UpdatedBefore", "updatedAt__lt", "UpdatedBefore", "string") >>

FieldsOf(kind) ==
    CASE kind = "Package" -> PackageFields
      [] kind = "Site" -> SiteFields
      [] kind = "Group" -> GroupFields

\* strings.Join(elems, sep)
RECURSIVE stringsJoin(_, _)
stringsJoin(elems, sep) ==
    IF elems = <<>> THEN ""
    ELSE IF Len(elems) = 1 THEN elems[1]
    ELSE elems[1] \o sep \o stringsJoin(Tail(elems), sep)

\* fmt.Sprintf("%d", n)
Digits == <<"0", "1", "2", "3", "4", "5", "6", "7", "8", "9">>

RECURSIVE decimal(_)
decimal(n) == IF n < 10 THEN Digits[n + 1] ELSE decimal(n \div 10) \o Digits[(n % 10) + 1]

formatD(n) == IF n < 0 THEN "-" \o decimal(0 - n) ELSE decimal(n)

\* fmt.Sprintf("%t", b)
formatT(b) == IF b THEN "true" ELSE "false"

\* len(p.X) > 0 for a list, p.X != nil for a pointer.
isSet(type, value) == IF type = "list" THEN Len(value) > 0 ELSE value # None

\* The string a branch writes for the value it reads.
formatted(type, value) ==
    CASE type = "list" -> stringsJoin(value, ",")
      [] type = "string" -> value[1]
      [] type = "int" -> formatD(value[1])
      [] type = "bool" -> formatT(value[1])

\* queryString[key] = value
put(queryString, key, value) ==
    [k \in DOMAIN queryString \cup {key} |-> IF k = key THEN value ELSE queryString[k]]

\* The branches of a toStringMap from the i-th on.  Reading through a nil
\* pointer is a run-time panic.
RECURSIVE branches(_, _, _, _)
branches(fields, i, p, queryString) ==
    IF i > Len(fields) THEN [queryString |-> queryString, panic |-> FALSE]
    ELSE IF ~isSet(fields[i].type, p[fields[i].test])
    THEN branches(fields, i + 1, p, queryString)
    ELSE IF fields[i].type # "list" /\ p[fields[i].from] = None
    THEN [queryString |-> queryString, panic |-> TRUE]
    ELSE branches(fields, i + 1, p,
                  put(queryString, fields[i].key,
                      formatted(fields[i].type, p[fields[i].from])))

\* queryString := map[string]string{}
NoQueryString == [k \in {} |-> ""]

toStringMap(kind, p) == branches(FieldsOf(kind), 1, p, NoQueryString)

\* The names of the fields of a parameter struct and their types.
FieldNames(kind) == { FieldsOf(kind)[i].test : i \in DOMAIN FieldsOf(kind) }

typeOf(kind, name) ==
    (CHOOSE f \in { FieldsOf(kind)[i] : i \in DOMAIN FieldsOf(kind) } : f.test = name).type

\* The values a field is given: lists of one value and more, a string, two
\* integers, the two booleans.
ListValues == <<"v1", "v2", "v3", "v4">>

ValuesOf(type) ==
    CASE type = "list" -> { SubSeq(ListValues, 1, k) : k \in 1..MaxListLen }
      [] type = "string" -> { Some("s") }
      [] type = "int" -> { Some(0 - 3), Some(25) }
      [] type = "bool" -> { Some(TRUE), Some(FALSE) }

Unset(type) == IF type = "list" THEN <<>> ELSE None

\* The parameter structs with at most n fields set.
RECURSIVE ParamsWith(_, _)
ParamsWith(kind, n) ==
    IF n = 0 THEN { [name \in FieldNames(kind) |-> Unset(typeOf(kind, name))] }
    ELSE ParamsWith(kind, n - 1)
            \cup UNION { { [p EXCEPT ![name] = v] : v \in ValuesOf(typeOf(kind, name)) }
                         : p \in ParamsWith(kind, n - 1), name \in FieldNames(kind) }

ParamsOf(kind) == ParamsWith(kind, MaxSetFields)

\* A caller holds a parameter struct.
InitQuery ==
    /\ pc = "idle"
    /\ \E kind \in Kinds :
        \E p \in ParamsOf(kind) : op = [name |-> "toStringMap", kind |-> kind, query |-> p]
    /\ getQueryParams = NoQueryString
    /\ acc = <<>>
    /\ requests = <<>>
    /\ served = <<>>
    /\ decoded = 0
    /\ ret = NoRet
    /\ goos = "linux"
    /\ fs = EmptyFs
    /\ cfg = DefaultPlan
    /\ tfstate = None
    /\ rop = NoRop
    /\ planResp = NoPlanResponse
    /\ steps = 0

\* getQueryParams := queryParams.toStringMap()
ToStringMap ==
    /\ pc = "idle"
    /\ \E r \in { toStringMap(op.kind, op.query) } :
        /\ pc' = IF r.panic THEN "panicked" ELSE "returned"
        /\ getQueryParams' = IF r.panic THEN getQueryParams ELSE r.queryString
    /\ UNCHANGED <<op, acc, requests, served, decoded, ret>>
    /\ UNCHANGED resVars

NextQuery == ToStringMap

SpecQuery == InitQuery /\ [][NextQuery]_vars

\* The fields set in the struct toStringMap was called on.
SetFields ==
    { name \in FieldNames(op.kind) : isSet(typeOf(op.kind, name), op.query[name]) }

\* C18: toStringMap of PackageQueryParams, SiteQueryParams and
\* GroupQueryParams: with all fields unset the result is an empty map; every
\* set field contributes exactly one key and every unset field none; a list
\* field holding v1..vk (k >= 1) contributes the single value that joins
\* v1..vk with commas.
C18_QueryMapHasOneKeyPerSetField ==
    (op.name = "toStringMap" /\ pc # "idle")
        => /\ pc = "returned"
           /\ Cardinality(DOMAIN getQueryParams) = Cardinality(SetFields)
           /\ \A name \in SetFields :
                typeOf(op.kind, name) = "list"
                    => \E k \in DOMAIN getQueryParams :
                          getQueryParams[k] = stringsJoin(op.query[name], ",")

-----------------------------------------------------------------------------
(* Claims about pagination *)

\* C21: in a find the first request carries exactly the serialized query
\* parameters and no cursor key; every later request carries the same
\* parameters unchanged plus cursor equal to the next_cursor of the response
\* just before it; requests are strictly sequential: request i+1 is issued
\* only after response i has been received and decoded.
C21_EachRequestCarriesThePrecedingCursor ==
    op.name = "Find"
        => /\ op.query["cursor"] = None
           /\ Len(requests) >= 1 => requests[1].query = op.query
           /\ \A i \in 2..Len(requests) :
                /\ served[i - 1].body.nextCursor \notin {None, Some("")}
                /\ requests[i].query =
                      [op.query EXCEPT !["cursor"] = served[i - 1].body.nextCursor]
           /\ Len(served) = Len(requests)
           /\ decoded >= Len(requests) - 1

\* Three requests of a find with parameters: none, then c1, then c2.
C21_Witness ==
    /\ op.name = "Find"
    /\ op.query["ids"] = Some("p1,p2")
    /\ Len(requests) = 3
    /\ requests[1].query["cursor"] = None
    /\ served[1].body.nextCursor = Some("c1")
    /\ requests[2].query["cursor"] = Some("c1")
    /\ served[2].body.nextCursor = Some("c2")
    /\ requests[3].query["cursor"] = Some("c2")
    /\ requests[3].query["ids"] = Some("p1,p2")
    /\ decoded >= 2

\* A finder called without parameters is about to enter its loop.
InitFind ==
    /\ pc = "loop"
    /\ \E kind \in Kinds : op = [name |-> "Find", kind |-> kind, query |-> EmptyQuery]
    /\ getQueryParams = EmptyQuery
    /\ acc = <<>>
    /\ requests = <<>>
    /\ served = <<>>
    /\ decoded = 0
    /\ ret = NoRet
    /\ goos = "linux"
    /\ fs = EmptyFs
    /\ cfg = DefaultPlan
    /\ tfstate = None
    /\ rop = NoRop
    /\ planResp = NoPlanResponse
    /\ steps = 0

\* A find under way: the loop takes its next pass whenever it can (the
\* finder runs alone and each request is answered).
NextFind == FindPage

SpecFind == InitFind /\ [][NextFind]_vars /\ WF_vars(FindPage)

\* Every page served so far was good and carried a non-empty cursor.
PerpetualCursor ==
    /\ op.name = "Find"
    /\ Len(served) >= 1
    /\ \A i \in 1..Len(served) : WirePage(op.kind, served[i]) /\ ~WireCursorEmpty(served[i])

\* C22: a find terminates whenever the server, after finitely many pages,
\* returns an empty next_cursor or a failing response; it has no page limit
\* of its own: as long as every page comes without error and with a
\* non-empty cursor it has not returned.  A find that has started returns,
\* unless the server has kept the cursor going for MaxPages pages.
C22_FindEndsOnlyWhenTheServerEndsIt ==
    /\ [](PerpetualCursor => (pc = "loop" /\ ret = NoRet))
    /\ (pc = "loop") ~> (pc = "returned" \/ (PerpetualCursor /\ Len(served) = MaxPages))

\* A find that returned without error after two pages with a cursor and one
\* without.
C22_Witness ==
    /\ op.name = "Find"
    /\ pc = "returned"
    /\ ret.diags = <<>>
    /\ Len(served) = 3
    /\ ~WireCursorEmpty(served[1])
    /\ ~WireCursorEmpty(served[2])
    /\ WireCursorEmpty(served[3])

-----------------------------------------------------------------------------
(* Claims about the resource, continued *)

\* C23: Read of a tracked resource whose output_file is a directory ends
\* with an error diagnostic and does not overwrite the tracked record:
\* file_size, sha1 and file_mode keep the values they had before the Read and
\* the resource stays tracked.  A Read that ends is one that did not crash in
\* the lookup.
C23_ReadOfDirectoryKeepsTheRecord ==
    (rop.name = "Read" /\ TrackedFile.kind = "dir")
        => /\ tfstate = rop.tracked
           /\ tfstate # None
           /\ ~rop.panic => HasError(rop.diags)

\* Read found the package and then a directory at output_file.
C23_Witness ==
    /\ rop.name = "Read"
    /\ LookupSucceeded
    /\ TrackedFile = DirNode
    /\ rop.diags = <<ReadErrorDiag, FsDiag("ERR_UTIL_GET_FILE_SHA1")>>
    /\ tfstate = rop.tracked
    /\ tfstate[1].FileSize = Some(100)

\* C24: the tracked package_id and site_id are immutable for the resource's
\* life: no Read and no Update, successful or failed, changes them; a change
\* of either in the configuration is only ever realised as a replacement
\* (Delete followed by Create), never by Update.
C24_PackageAndSiteAreNeverUpdated ==
    /\ (rop.tracked # None /\ tfstate # None)
            => /\ tfstate[1].PackageId = rop.tracked[1].PackageId
               /\ tfstate[1].SiteId = rop.tracked[1].SiteId
    /\ rop.name = "Update"
            => /\ cfg.PackageId = rop.tracked[1].PackageId
               /\ cfg.SiteId = rop.tracked[1].SiteId

\* The Delete of a replacement: the configuration names another package
\* than the one tracked.
C24_Witness ==
    /\ rop.name = "Delete"
    /\ cfg.PackageId = Some("p2")
    /\ rop.tracked[1].PackageId = Some("p1")
    /\ rop.diags = <<>>
    /\ tfstate = None
    /\ TrackedFile.kind = "file"
    /\ nodeAt(fs, OldPath) = NoNode

-----------------------------------------------------------------------------
(* Claims about the lookups and the query parameters, continued *)

\* The elements of the data payload of a reply.
RECURSIVE Range(_)
Range(seq) == IF seq = <<>> THEN {} ELSE {Head(seq)} \cup Range(Tail(seq))

\* C25: whenever GetPackage, GetSite or GetGroup returns without an error
\* diagnostic, the entity it returns is an element of the response's data
\* payload; for every successful HTTP response, also one whose pagination
\* total is 1 while its data array is empty or null, and one whose total is 0
\* while its data array is not empty, the call ends normally with either an
\* entity or an error diagnostic: it never indexes into an empty result.
C25_GetNeverIndexesAnEmptyResult ==
    (op.name = "Get" /\ WireEnvelope(LastReply) /\ LastReply.status < 400)
        => /\ pc = "returned"
           /\ ~ret.panic
           /\ ret.entity # None \/ HasError(ret.diags)
           /\ (ret.diags = <<>> /\ ret.entity # None)
                => ret.entity[1] \in Range(WireItems(LastReply))

-----------------------------------------------------------------------------
(* Claims about Update, Read after Create, and destruction *)

\* C26: after any Update, successful or failed, the tracked output_file is
\* the path at which the artifact file resides: if Update fails after the
\* file was moved (the permission change fails after the rename), the tracked
\* path still locates the file, so that a following Read does not take the
\* resource for deleted and leave an untracked file at the new path.
C26_TrackedPathLocatesTheFileAfterUpdate ==
    (rop.name = "Update" /\ TrackedFile.kind = "file")
        => /\ TrackedNow.kind = "file"
           /\ TrackedNow.content = TrackedFile.content

\* The branch of a toStringMap that tests the field of a name.
branchOf(kind, name) ==
    CHOOSE f \in { FieldsOf(kind)[i] : i \in DOMAIN FieldsOf(kind) } : f.test = name

\* C27: GroupQueryParams.toStringMap maps every set field to its own key
\* carrying that field's own value, and completes normally for every
\* combination of set and unset fields; so the key updatedAt__lte carries
\* the value of UpdatedAtOrBefore also when UpdatedAtOrAfter is unset.
C27_GroupFieldsCarryTheirOwnValues ==
    (op.name = "toStringMap" /\ op.kind = "Group" /\ pc # "idle")
        => /\ pc = "returned"
           /\ \A name \in SetFields :
                /\ branchOf("Group", name).key \in DOMAIN getQueryParams
                /\ getQueryParams[branchOf("Group", name).key] =
                      formatted(typeOf("Group", name), op.query[name])
           /\ op.query["UpdatedAtOrBefore"] # None
                => /\ "updatedAt__lte" \in DOMAIN getQueryParams
                   /\ getQueryParams["updatedAt__lte"] = op.query["UpdatedAtOrBefore"][1]

\* fileMode.ValidateString: a mode string is accepted when it parses.
ValidateString(mode) == ~HasError(ParseFilesystemMode(mode).diags)

\* The server reports for the package what Create recorded.
ServerUnchanged ==
    /\ LookupSucceeded
    /\ Some(ReportedAtStart.FileSize) = rop.tracked[1].FileSize
    /\ Some(ReportedAtStart.SHA1) = rop.tracked[1].SHA1
    /\ Some(ReportedAtStart.Version) = rop.tracked[1].Version

\* C28: a Read performed directly after a successful Create, with no
\* external change to the file or to the server, leaves the tracked record
\* identical to the one Create stored, file_mode included, for every mode
\* string the validator accepts ("644" as well as "0644"): formatting the
\* parsed mode gives back the configured string.
C28_ReadAfterCreateChangesNothing ==
    (rop.name = "Read" /\ steps = 2 /\ ServerUnchanged /\ rop.diags = <<>>
        /\ ValidateString(rop.tracked[1].FileMode[1]))
        => tfstate = rop.tracked

\* C29: Update never destroys another file: when the destination of a move
\* is occupied by a file other than the artifact and overwrite_existing_file
\* is false, Update fails with an error diagnostic and leaves both the
\* artifact and the occupying file unchanged.
C29_UpdateNeverDestroysAnotherFile ==
    (rop.name = "Update" /\ PlacementChanged /\ Dest # OldPath
        /\ TrackedFile.kind = "file" /\ DestBefore.kind = "file"
        /\ cfg.OverwriteExistingFile = Some(FALSE))
        => /\ HasError(rop.diags)
           /\ DestNow = DestBefore
           /\ nodeAt(fs, OldPath) = TrackedFile

\* C30: a tracked resource can always be destroyed irrespective of the
\* server: when the package lookup fails, the plan-time check that precedes
\* Delete completes without error diagnostic, and Delete itself asks the
\* server nothing, so that it removes the file at output_file whatever the
\* server would have answered.
C30_DestroyNeedsNoServer ==
    /\ (rop.name = "ModifyPlan" /\ ~LookupSucceeded)
            => rop.diags = <<>> /\ ~rop.panic
    /\ Deleted => requests = <<>>

====
